---- MODULE Spec2Model ----
(***************************************************************************)
(* Basic-RAG: the Streamlit application (app.py), the batch ingestion      *)
(* script (ingest.py) and the query script (main.py), modelled as callers  *)
(* of one remote vector store.  Every action is the code of a handler      *)
(* between two calls to the store (or to the LLM); the store's answer to   *)
(* each call is either the truthful one or a transport failure.            *)
(***************************************************************************)
EXTENDS Integers, Sequences, FiniteSets, TLC

\* ------------------------------------------------------------------------
\* Bounds of the model
\* ------------------------------------------------------------------------
MaxRuns == 2          \* handler runs per behaviour
MaxFragments == 2     \* fragments of one LLM stream
IdSpace == 2          \* size of the id space np.random.randint draws from
RaceFaults == 1       \* transport faults while two callers race
MaxLen == 5           \* characters of a text given to the chunking loop
MaxSize == 3          \* chunk size given to the chunking loop
MaxThreads == 3       \* threads of one process that call load_model
MaxTries == 3         \* max_retries given to retry_qdrant_operation
MaxDelay == 3         \* delay given to retry_qdrant_operation

\* ------------------------------------------------------------------------
\* Program constants
\* ------------------------------------------------------------------------
max_retries == 3
chunk_size == 500
overlap == 100
MAX_SEARCH_RESULTS == 5
VectorSize == 384

None == "None"
AnyFaults == -1
NoCollection == [exists |-> FALSE, size |-> 0, distance |-> None]
Callers == {"s1", "s2"}

\* ------------------------------------------------------------------------
\* Failure descriptions.  str(e) of an exception is a Python string; the
\* state keeps the string, Chars gives its characters so that lower() and
\* the substring tests are computed as the code computes them.
\* ------------------------------------------------------------------------
E_ConnTimeout == "Connection timeout while handshaking"
E_Handshake == "handshake timeout"
E_Schema == "Invalid payload schema"
E_Refused == "Connection refused"
E_ReadTimeout == "Read timeout"
E_ModelLoad == "Out of memory"
E_NotFound == "Not found: Collection pdf_chunks doesn't exist!"
E_AlreadyExists == "Wrong input: Collection pdf_chunks already exists!"
E_Dimension == "Wrong input: Vector dimension error: expected dim: 768, got 384"

Chars(e) ==
  CASE e = "Connection timeout while handshaking" ->
            <<"C","o","n","n","e","c","t","i","o","n"," ","t","i","m","e","o","u","t"," ","w","h","i","l","e"," ","h","a","n","d","s","h","a","k","i","n","g">>
       [] e = "handshake timeout" ->
            <<"h","a","n","d","s","h","a","k","e"," ","t","i","m","e","o","u","t">>
       [] e = "Invalid payload schema" ->
            <<"I","n","v","a","l","i","d"," ","p","a","y","l","o","a","d"," ","s","c","h","e","m","a">>
       [] e = "Read timeout" ->
            <<"R","e","a","d"," ","t","i","m","e","o","u","t">>
       [] e = "Out of memory" ->
            <<"O","u","t"," ","o","f"," ","m","e","m","o","r","y">>
       [] e = "Connection refused" ->
            <<"C","o","n","n","e","c","t","i","o","n"," ","r","e","f","u","s","e","d">>
       [] e = "Not found: Collection pdf_chunks doesn't exist!" ->
            <<"N","o","t"," ","f","o","u","n","d",":"," ","C","o","l","l","e","c","t","i","o","n"," ","p","d","f","_","c","h","u","n","k","s"," ","d","o","e","s","n","'","t"," ","e","x","i","s","t","!">>
       [] e = "Wrong input: Vector dimension error: expected dim: 768, got 384" ->
            <<"W","r","o","n","g"," ","i","n","p","u","t",":"," ","V","e","c","t","o","r"," ","d","i","m","e","n","s","i","o","n"," ","e","r","r","o","r",":"," ","e","x","p","e","c","t","e","d"," ","d","i","m",":"," ","7","6","8",","," ","g","o","t"," ","3","8","4">>
       [] e = "Wrong input: Collection pdf_chunks already exists!" ->
            <<"W","r","o","n","g"," ","i","n","p","u","t",":"," ","C","o","l","l","e","c","t","i","o","n"," ","p","d","f","_","c","h","u","n","k","s"," ","a","l","r","e","a","d","y"," ","e","x","i","s","t","s","!">>

\* chr(cp): the character of a code point; a control character or a
\* character beyond ASCII is named by its code point
Chr(cp) ==
  LET Printable ==
        <<" ", "!", "\"", "#", "$", "%", "&", "'", "(", ")", "*", "+", ",", "-", ".", "/",
          "0", "1", "2", "3", "4", "5", "6", "7", "8", "9", ":", ";", "<", "=", ">", "?",
          "@", "A", "B", "C", "D", "E", "F", "G", "H", "I", "J", "K", "L", "M", "N", "O",
          "P", "Q", "R", "S", "T", "U", "V", "W", "X", "Y", "Z", "[", "\\", "]", "^", "_",
          "U+0060", "a", "b", "c", "d", "e", "f", "g", "h", "i", "j", "k", "l", "m", "n", "o",
          "p", "q", "r", "s", "t", "u", "v", "w", "x", "y", "z", "{", "|", "}", "~">>
      Hex == <<"0", "1", "2", "3", "4", "5", "6", "7", "8", "9", "A", "B", "C", "D", "E", "F">>
      RECURSIVE hex(_, _)
      hex(n, width) ==
        IF width <= 0 /\ n = 0 THEN ""
        ELSE hex(n \div 16, width - 1) \o Hex[(n % 16) + 1]
  IN IF cp \in 32..126 THEN Printable[cp - 31]
     ELSE IF cp = 9 THEN "\t"
     ELSE IF cp = 10 THEN "\n"
     ELSE IF cp = 13 THEN "\r"
     ELSE "U+" \o hex(cp, 4)

\* ord(ch) of an ASCII character
Ord(ch) == CHOOSE cp \in 0..127 : Chr(cp) = ch

\* str.lower() on one character of an error text
lower_char(ch) ==
  IF \E cp \in 65..90 : Chr(cp) = ch THEN Chr(Ord(ch) + 32) ELSE ch

\* str(e).lower()
lower(s) == [i \in 1..Len(s) |-> lower_char(s[i])]

\* Python's `kw in s` on strings
Contains(s, kw) ==
  \E i \in 0..(Len(s) - Len(kw)) : SubSeq(s, i + 1, i + Len(kw)) = kw

KW_timeout == <<"t","i","m","e","o","u","t">>
KW_handshake == <<"h","a","n","d","s","h","a","k","e">>
KW_ssl == <<"s","s","l">>
KW_connection == <<"c","o","n","n","e","c","t","i","o","n">>
KW_not_found == <<"n","o","t"," ","f","o","u","n","d">>
KW_doesnt_exist == <<"d","o","e","s","n","'","t"," ","e","x","i","s","t">>
KW_404 == <<"4","0","4">>
KW_already_exists == <<"a","l","r","e","a","d","y"," ","e","x","i","s","t","s">>
KW_collection == <<"c","o","l","l","e","c","t","i","o","n">>
KW_exists == <<"e","x","i","s","t","s">>

\* error_str = str(e).lower()
error_str(e) == lower(Chars(e))

\* is_timeout of ensure_collection_exists and of the upsert loop
is_timeout(es) ==
  Contains(es, KW_timeout) \/ Contains(es, KW_handshake) \/ Contains(es, KW_ssl)

\* is_retryable of retry_qdrant_operation
is_retryable(es) ==
  Contains(es, KW_timeout) \/ Contains(es, KW_handshake) \/ Contains(es, KW_ssl)
    \/ Contains(es, KW_connection)

\* is_not_found of the upsert loop
is_not_found(es) ==
  Contains(es, KW_not_found) \/ Contains(es, KW_doesnt_exist) \/ Contains(es, KW_404)

\* the "already exists" test of ensure_collection_exists
ensure_already_exists(es) ==
  Contains(es, KW_already_exists)
    \/ (Contains(es, KW_collection) /\ Contains(es, KW_exists))

\* the "already exists" test of the on-the-fly creation in the upsert loop
otf_already_exists(es) == Contains(es, KW_already_exists)

\* the timeout test of the on-the-fly creation in the upsert loop
otf_create_timeout(es) ==
  Contains(es, KW_timeout) \/ Contains(es, KW_handshake)

\* every failure description the store answers with
ErrorTexts ==
  {E_ConnTimeout, E_Handshake, E_Schema, E_Refused, E_ReadTimeout, E_ModelLoad,
   E_NotFound, E_AlreadyExists, E_Dimension}

\* the tests above applied to each description, evaluated once
Classified ==
  {[text |-> e,
    is_timeout |-> is_timeout(error_str(e)),
    is_retryable |-> is_retryable(error_str(e)),
    is_not_found |-> is_not_found(error_str(e)),
    ensure_already_exists |-> ensure_already_exists(error_str(e)),
    otf_already_exists |-> otf_already_exists(error_str(e)),
    otf_create_timeout |-> otf_create_timeout(error_str(e))] : e \in ErrorTexts}

classify(e) == CHOOSE k \in Classified : k.text = e

\* ------------------------------------------------------------------------
\* The vector store (Qdrant): one collection of the configured name and its
\* points.  A call is answered truthfully or fails with a transport fault.
\* ------------------------------------------------------------------------
CheckFaults == {E_Handshake, E_Refused}
CreateFaults == {E_Handshake, E_Refused}
UpsertFaults == {E_ConnTimeout, E_Handshake, E_Schema, E_Refused}
QueryFaults == {E_Handshake}

IsFault(r) == r \notin {"ok", E_NotFound, E_AlreadyExists, E_Dimension}

\* the answers the store can still give, and the budget after answer r
Allowed(answers, budget) == {r \in answers : ~IsFault(r) \/ budget # 0}
spend(budget, r) == IF IsFault(r) /\ budget > 0 THEN budget - 1 ELSE budget

\* qdrant.get_collection / collection_exists
get_collection_answers(coll) ==
  {IF coll = NoCollection THEN E_NotFound ELSE "ok"} \cup CheckFaults

\* qdrant.create_collection(size, COSINE)
create_collection_answers(coll) ==
  {IF coll = NoCollection THEN "ok" ELSE E_AlreadyExists} \cup CreateFaults

created_collection(size) == [exists |-> TRUE, size |-> size, distance |-> "Cosine"]

\* the answer of the store to vectors of the model's dimension: the
\* collection is absent, of another dimension, or takes them
vector_answer(coll) ==
  IF coll = NoCollection THEN E_NotFound
  ELSE IF coll.size # VectorSize THEN E_Dimension
  ELSE "ok"

\* qdrant.upsert
upsert_answers(coll, faults) == {vector_answer(coll)} \cup faults

\* the failures that can reach the caller although the store applied the
\* write: the reply was lost
LostReplies == {E_ReadTimeout}

\* whether the store applied an upsert it answered with r
upsert_applied(r, coll) ==
  IF r = "ok" THEN {TRUE}
  ELSE IF r \in LostReplies /\ vector_answer(coll) = "ok" THEN BOOLEAN
  ELSE {FALSE}

\* qdrant.query_points
query_answers(coll) == {vector_answer(coll)} \cup QueryFaults

\* the points of a batch are written in order; a later point with the same
\* id replaces the earlier one
RECURSIVE upsert_points(_, _)
upsert_points(pts, batch) ==
  IF batch = <<>> THEN pts
  ELSE upsert_points(
         [i \in (DOMAIN pts) \cup {Head(batch).id} |->
            IF i = Head(batch).id THEN Head(batch).payload ELSE pts[i]],
         Tail(batch))

NoPoints == [i \in {} |-> <<>>]

\* ------------------------------------------------------------------------
\* Embedding
\* ------------------------------------------------------------------------
\* get_vector_size()
get_vector_size == VectorSize

\* embed(text): deterministic in the text, of the model's dimension
embed(text) == [size |-> get_vector_size, of |-> text]

\* ------------------------------------------------------------------------
\* Text: Python strings as sequences of characters
\* ------------------------------------------------------------------------
\* the characters str.strip() removes
Whitespace ==
  {" ", "\n", "\t", "\r", "U+000B", "U+000C", "U+001C", "U+001D", "U+001E", "U+001F",
   "U+0085", "U+00A0", "U+1680", "U+2000", "U+2001", "U+2002", "U+2003", "U+2004",
   "U+2005", "U+2006", "U+2007", "U+2008", "U+2009", "U+200A", "U+2028", "U+2029",
   "U+202F", "U+205F", "U+3000"}

\* `not full_text.strip()`
is_blank(text) == \A i \in 1..Len(text) : text[i] \in Whitespace

Min(a, b) == IF a <= b THEN a ELSE b

\* text[start:end]
slice(text, start, end) == SubSeq(text, start + 1, Min(end, Len(text)))

\* faulty variant: the loop advances by the whole chunk size
chunk_advance_size(start, size, ov) == start + size

\* start += chunk_size - overlap
chunk_advance(start, size, ov) == start + (size - ov)

\* the chunking loop of the upload handler
RECURSIVE chunk_loop(_, _, _, _)
chunk_loop(full_text, start, size, ov) ==
  IF start < Len(full_text)
  THEN <<slice(full_text, start, start + size)>>
         \o chunk_loop(full_text, chunk_advance(start, size, ov), size, ov)
  ELSE <<>>

\* a text one character longer than chunk_size - overlap: it makes two chunks
LongText == [i \in 1..(chunk_size - overlap + 1) |-> "x"]

DocTexts == {<<>>, <<" ">>, <<"a", " ", "b">>}

\* ------------------------------------------------------------------------
\* Documents and text extraction
\* ------------------------------------------------------------------------
\* A staged file: the container format of its bytes (pdf, docx, pptx, doc,
\* ppt, txt or empty), the text its own
\* parser reads from it, one line per paragraph or shape, and its bytes
\* ("empty" is the zero-byte file; a text file holds its text, encoded).
\* "doc" and "ppt" are the legacy binary containers: OLE2 compound files,
\* which are not ZIP archives and hold no text the handler can read.
\* bytes.decode('utf-8', errors='ignore'): a byte that begins a well-formed
\* sequence gives its character; a byte that is not part of a well-formed
\* sequence gives nothing
decode_utf8_ignore(bytes) ==
  LET n == Len(bytes)
      at(i) == IF i <= n THEN bytes[i] ELSE 0
      cont(i) == at(i) \in 128..191
      low(i) == at(i) % 64
      \* the second byte excludes overlong forms, surrogates and code points
      \* beyond U+10FFFF
      second(c, i) ==
        at(i) \in (CASE c = 224 -> 160..191
                     [] c = 237 -> 128..159
                     [] c = 240 -> 144..191
                     [] c = 244 -> 128..143
                     [] OTHER -> 128..191)
      char(i) ==
        LET c == bytes[i] IN
        IF c < 128 THEN Chr(c)
        ELSE IF c \in 194..223 /\ cont(i + 1)
        THEN Chr((c % 32) * 64 + low(i + 1))
        ELSE IF c \in 224..239 /\ second(c, i + 1) /\ cont(i + 2)
        THEN Chr((c % 16) * 4096 + low(i + 1) * 64 + low(i + 2))
        ELSE IF c \in 240..244 /\ second(c, i + 1) /\ cont(i + 2) /\ cont(i + 3)
        THEN Chr((c % 8) * 262144 + low(i + 1) * 4096 + low(i + 2) * 64 + low(i + 3))
        ELSE ""
  IN SelectSeq([i \in 1..n |-> char(i)], LAMBDA ch : ch # "")

\* The bytes of a PDF file of one page that shows `text`: five objects
\* (catalog, page tree, font, page, content stream), the cross-reference
\* table and the trailer.  The stream's /Length and the startxref offset are
\* written in decimal.
PdfBytes(text) ==
  LET RECURSIVE digits(_)
      digits(n) == IF n < 10 THEN <<48 + n>> ELSE digits(n \div 10) \o <<48 + (n % 10)>>
      \* "BT /F1 12 Tf 72 720 Td (" text ") Tj ET"
      stream == <<66, 84, 32, 47, 70, 49, 32, 49, 50, 32, 84, 102, 32, 55, 50, 32, 55, 50, 48,
                  32, 84, 100, 32, 40>>
                  \o [i \in 1..Len(text) |-> Ord(text[i])] \o <<41, 32, 84, 106, 32, 69, 84>>
      \* "%PDF-1.4" and the objects 1 to 4, then "5 0 obj << /Length "
      body == <<37, 80, 68, 70, 45, 49, 46, 52, 10, 49, 32, 48, 32, 111, 98, 106, 10, 60, 60, 32,
                47, 84, 121, 112, 101, 32, 47, 67, 97, 116, 97, 108, 111, 103, 32, 47, 80, 97,
                103, 101, 115, 32, 50, 32, 48, 32, 82, 32, 62, 62, 10, 101, 110, 100, 111, 98,
                106, 10, 50, 32, 48, 32, 111, 98, 106, 10, 60, 60, 32, 47, 84, 121, 112, 101, 32,
                47, 80, 97, 103, 101, 115, 32, 47, 75, 105, 100, 115, 32, 91, 52, 32, 48, 32, 82,
                93, 32, 47, 67, 111, 117, 110, 116, 32, 49, 32, 62, 62, 10, 101, 110, 100, 111,
                98, 106, 10, 51, 32, 48, 32, 111, 98, 106, 10, 60, 60, 32, 47, 84, 121, 112, 101,
                32, 47, 70, 111, 110, 116, 32, 47, 83, 117, 98, 116, 121, 112, 101, 32, 47, 84,
                121, 112, 101, 49, 32, 47, 66, 97, 115, 101, 70, 111, 110, 116, 32, 47, 72, 101,
                108, 118, 101, 116, 105, 99, 97, 32, 62, 62, 10, 101, 110, 100, 111, 98, 106, 10,
                52, 32, 48, 32, 111, 98, 106, 10, 60, 60, 32, 47, 84, 121, 112, 101, 32, 47, 80,
                97, 103, 101, 32, 47, 80, 97, 114, 101, 110, 116, 32, 50, 32, 48, 32, 82, 32, 47,
                77, 101, 100, 105, 97, 66, 111, 120, 32, 91, 48, 32, 48, 32, 54, 49, 50, 32, 55,
                57, 50, 93, 32, 47, 82, 101, 115, 111, 117, 114, 99, 101, 115, 32, 60, 60, 32,
                47, 70, 111, 110, 116, 32, 60, 60, 32, 47, 70, 49, 32, 51, 32, 48, 32, 82, 32,
                62, 62, 32, 62, 62, 32, 47, 67, 111, 110, 116, 101, 110, 116, 115, 32, 53, 32,
                48, 32, 82, 32, 62, 62, 10, 101, 110, 100, 111, 98, 106, 10, 53, 32, 48, 32, 111,
                98, 106, 10, 60, 60, 32, 47, 76, 101, 110, 103, 116, 104, 32>>
                \o digits(Len(stream))
                \o <<32, 62, 62, 10, 115, 116, 114, 101, 97, 109, 10>>
                \o stream
                \o <<10, 101, 110, 100, 115, 116, 114, 101, 97, 109, 10, 101, 110, 100, 111, 98,
                  106, 10>>
  IN body
       \* "xref", the six entries, "trailer << /Size 6 /Root 1 0 R >> startxref"
       \o <<120, 114, 101, 102, 10, 48, 32, 54, 10, 48, 48, 48, 48, 48, 48, 48, 48, 48, 48, 32,
           54, 53, 53, 51, 53, 32, 102, 32, 10, 48, 48, 48, 48, 48, 48, 48, 48, 48, 57, 32, 48,
           48, 48, 48, 48, 32, 110, 32, 10, 48, 48, 48, 48, 48, 48, 48, 48, 53, 56, 32, 48, 48,
           48, 48, 48, 32, 110, 32, 10, 48, 48, 48, 48, 48, 48, 48, 49, 49, 53, 32, 48, 48, 48,
           48, 48, 32, 110, 32, 10, 48, 48, 48, 48, 48, 48, 48, 49, 56, 53, 32, 48, 48, 48, 48,
           48, 32, 110, 32, 10, 48, 48, 48, 48, 48, 48, 48, 51, 49, 49, 32, 48, 48, 48, 48, 48,
           32, 110, 32, 10, 116, 114, 97, 105, 108, 101, 114, 10, 60, 60, 32, 47, 83, 105, 122,
           101, 32, 54, 32, 47, 82, 111, 111, 116, 32, 49, 32, 48, 32, 82, 32, 62, 62, 10, 115,
           116, 97, 114, 116, 120, 114, 101, 102, 10>>
       \o digits(Len(body)) \o <<10, 37, 37, 69, 79, 70, 10>>

\* The bytes of the other files of the model.  The Word and PowerPoint files
\* are ZIP packages (deflated parts: [Content_Types].xml, _rels/.rels and
\* word/document.xml with one w:p per paragraph, or ppt/presentation.xml, its
\* relationships and ppt/slides/slide1.xml with one p:sp per shape); the
\* legacy files are an OLE2 compound file (header, directory sector with the
\* Root Entry, FAT sector); a text file holds its text in UTF-8.
FileBytes(format, text) ==
  CASE format = "pdf" -> PdfBytes(text)
    [] format = "docx" /\ text = <<>> ->
         <<80, 75, 3, 4, 20, 0, 0, 0, 8, 0, 0, 0, 33, 88, 201, 79, 26, 176, 235, 0, 0, 0, 174, 1,
           0, 0, 19, 0, 0, 0, 91, 67, 111, 110, 116, 101, 110, 116, 95, 84, 121, 112, 101, 115,
           93, 46, 120, 109, 108, 125, 80, 189, 78, 195, 48, 16, 222, 121, 10, 203, 43, 138, 29,
           24, 16, 66, 73, 58, 240, 51, 2, 67, 121, 128, 147, 125, 73, 44, 236, 179, 229, 115,
           75, 251, 246, 56, 109, 233, 128, 10, 227, 221, 247, 171, 175, 91, 237, 130, 23, 91,
           204, 236, 34, 245, 242, 70, 181, 82, 32, 153, 104, 29, 77, 189, 252, 88, 191, 52, 247,
           82, 112, 1, 178, 224, 35, 97, 47, 247, 200, 114, 53, 92, 117, 235, 125, 66, 22, 85,
           76, 220, 203, 185, 148, 244, 160, 53, 155, 25, 3, 176, 138, 9, 169, 34, 99, 204, 1,
           74, 61, 243, 164, 19, 152, 79, 152, 80, 223, 182, 237, 157, 54, 145, 10, 82, 105, 202,
           226, 33, 135, 238, 9, 71, 216, 248, 34, 158, 119, 245, 125, 44, 146, 209, 179, 20,
           143, 71, 226, 146, 213, 75, 72, 201, 59, 3, 165, 226, 122, 75, 246, 87, 74, 115, 74,
           80, 85, 121, 224, 240, 236, 18, 95, 87, 130, 212, 23, 19, 22, 228, 239, 128, 147, 238,
           173, 46, 147, 157, 69, 241, 14, 185, 188, 66, 168, 44, 253, 21, 179, 213, 54, 154, 77,
           168, 74, 245, 191, 205, 133, 158, 113, 28, 157, 193, 179, 126, 113, 75, 57, 26, 100,
           174, 147, 7, 175, 206, 72, 0, 71, 63, 253, 245, 97, 238, 225, 27, 80, 75, 3, 4, 20, 0,
           0, 0, 8, 0, 0, 0, 33, 88, 185, 129, 68, 113, 176, 0, 0, 0, 42, 1, 0, 0, 11, 0, 0, 0,
           95, 114, 101, 108, 115, 47, 46, 114, 101, 108, 115, 141, 207, 59, 14, 194, 48, 12, 6,
           224, 157, 83, 68, 222, 105, 90, 6, 132, 80, 147, 46, 8, 169, 43, 42, 7, 136, 18, 55,
           141, 104, 30, 74, 194, 163, 183, 39, 3, 3, 32, 6, 70, 219, 191, 63, 203, 109, 247,
           176, 51, 185, 97, 76, 198, 59, 6, 77, 85, 3, 65, 39, 189, 50, 78, 51, 56, 15, 199,
           245, 14, 72, 202, 194, 41, 49, 123, 135, 12, 22, 76, 208, 241, 85, 123, 194, 89, 228,
           178, 147, 38, 19, 18, 41, 136, 75, 12, 166, 156, 195, 158, 210, 36, 39, 180, 34, 85,
           62, 160, 43, 147, 209, 71, 43, 114, 41, 163, 166, 65, 200, 139, 208, 72, 55, 117, 189,
           165, 241, 221, 0, 254, 97, 146, 94, 49, 136, 189, 106, 128, 12, 75, 192, 127, 108, 63,
           142, 70, 226, 193, 203, 171, 69, 151, 127, 156, 248, 74, 20, 89, 68, 141, 153, 193,
           221, 71, 69, 213, 171, 93, 21, 22, 40, 111, 233, 199, 139, 252, 9, 80, 75, 3, 4, 20,
           0, 0, 0, 8, 0, 0, 0, 33, 88, 222, 111, 192, 246, 141, 0, 0, 0, 175, 0, 0, 0, 17, 0, 0,
           0, 119, 111, 114, 100, 47, 100, 111, 99, 117, 109, 101, 110, 116, 46, 120, 109, 108,
           69, 141, 65, 14, 194, 32, 16, 69, 247, 158, 130, 204, 222, 78, 117, 97, 76, 83, 232,
           206, 19, 232, 1, 16, 176, 109, 82, 102, 8, 131, 214, 222, 94, 92, 24, 87, 63, 47, 63,
           121, 175, 31, 222, 113, 81, 175, 144, 101, 102, 210, 112, 104, 90, 80, 129, 28, 251,
           153, 70, 13, 183, 235, 101, 127, 6, 37, 197, 146, 183, 11, 83, 208, 176, 5, 129, 193,
           236, 250, 181, 243, 236, 158, 49, 80, 81, 213, 64, 210, 173, 26, 166, 82, 82, 135, 40,
           110, 10, 209, 74, 195, 41, 80, 253, 30, 156, 163, 45, 21, 243, 136, 43, 103, 159, 50,
           187, 32, 82, 3, 113, 193, 99, 219, 158, 48, 218, 153, 192, 84, 229, 157, 253, 246,
           221, 132, 166, 199, 31, 226, 63, 101, 62, 80, 75, 1, 2, 20, 3, 20, 0, 0, 0, 8, 0, 0,
           0, 33, 88, 201, 79, 26, 176, 235, 0, 0, 0, 174, 1, 0, 0, 19, 0, 0, 0, 0, 0, 0, 0, 0,
           0, 0, 0, 128, 1, 0, 0, 0, 0, 91, 67, 111, 110, 116, 101, 110, 116, 95, 84, 121, 112,
           101, 115, 93, 46, 120, 109, 108, 80, 75, 1, 2, 20, 3, 20, 0, 0, 0, 8, 0, 0, 0, 33, 88,
           185, 129, 68, 113, 176, 0, 0, 0, 42, 1, 0, 0, 11, 0, 0, 0, 0, 0, 0, 0, 0, 0, 0, 0,
           128, 1, 28, 1, 0, 0, 95, 114, 101, 108, 115, 47, 46, 114, 101, 108, 115, 80, 75, 1, 2,
           20, 3, 20, 0, 0, 0, 8, 0, 0, 0, 33, 88, 222, 111, 192, 246, 141, 0, 0, 0, 175, 0, 0,
           0, 17, 0, 0, 0, 0, 0, 0, 0, 0, 0, 0, 0, 128, 1, 245, 1, 0, 0, 119, 111, 114, 100, 47,
           100, 111, 99, 117, 109, 101, 110, 116, 46, 120, 109, 108, 80, 75, 5, 6, 0, 0, 0, 0, 3,
           0, 3, 0, 185, 0, 0, 0, 177, 2, 0, 0, 0, 0>>
    [] format = "docx" /\ text = <<" ">> ->
         <<80, 75, 3, 4, 20, 0, 0, 0, 8, 0, 0, 0, 33, 88, 201, 79, 26, 176, 235, 0, 0, 0, 174, 1,
           0, 0, 19, 0, 0, 0, 91, 67, 111, 110, 116, 101, 110, 116, 95, 84, 121, 112, 101, 115,
           93, 46, 120, 109, 108, 125, 80, 189, 78, 195, 48, 16, 222, 121, 10, 203, 43, 138, 29,
           24, 16, 66, 73, 58, 240, 51, 2, 67, 121, 128, 147, 125, 73, 44, 236, 179, 229, 115,
           75, 251, 246, 56, 109, 233, 128, 10, 227, 221, 247, 171, 175, 91, 237, 130, 23, 91,
           204, 236, 34, 245, 242, 70, 181, 82, 32, 153, 104, 29, 77, 189, 252, 88, 191, 52, 247,
           82, 112, 1, 178, 224, 35, 97, 47, 247, 200, 114, 53, 92, 117, 235, 125, 66, 22, 85,
           76, 220, 203, 185, 148, 244, 160, 53, 155, 25, 3, 176, 138, 9, 169, 34, 99, 204, 1,
           74, 61, 243, 164, 19, 152, 79, 152, 80, 223, 182, 237, 157, 54, 145, 10, 82, 105, 202,
           226, 33, 135, 238, 9, 71, 216, 248, 34, 158, 119, 245, 125, 44, 146, 209, 179, 20,
           143, 71, 226, 146, 213, 75, 72, 201, 59, 3, 165, 226, 122, 75, 246, 87, 74, 115, 74,
           80, 85, 121, 224, 240, 236, 18, 95, 87, 130, 212, 23, 19, 22, 228, 239, 128, 147, 238,
           173, 46, 147, 157, 69, 241, 14, 185, 188, 66, 168, 44, 253, 21, 179, 213, 54, 154, 77,
           168, 74, 245, 191, 205, 133, 158, 113, 28, 157, 193, 179, 126, 113, 75, 57, 26, 100,
           174, 147, 7, 175, 206, 72, 0, 71, 63, 253, 245, 97, 238, 225, 27, 80, 75, 3, 4, 20, 0,
           0, 0, 8, 0, 0, 0, 33, 88, 185, 129, 68, 113, 176, 0, 0, 0, 42, 1, 0, 0, 11, 0, 0, 0,
           95, 114, 101, 108, 115, 47, 46, 114, 101, 108, 115, 141, 207, 59, 14, 194, 48, 12, 6,
           224, 157, 83, 68, 222, 105, 90, 6, 132, 80, 147, 46, 8, 169, 43, 42, 7, 136, 18, 55,
           141, 104, 30, 74, 194, 163, 183, 39, 3, 3, 32, 6, 70, 219, 191, 63, 203, 109, 247,
           176, 51, 185, 97, 76, 198, 59, 6, 77, 85, 3, 65, 39, 189, 50, 78, 51, 56, 15, 199,
           245, 14, 72, 202, 194, 41, 49, 123, 135, 12, 22, 76, 208, 241, 85, 123, 194, 89, 228,
           178, 147, 38, 19, 18, 41, 136, 75, 12, 166, 156, 195, 158, 210, 36, 39, 180, 34, 85,
           62, 160, 43, 147, 209, 71, 43, 114, 41, 163, 166, 65, 200, 139, 208, 72, 55, 117, 189,
           165, 241, 221, 0, 254, 97, 146, 94, 49, 136, 189, 106, 128, 12, 75, 192, 127, 108, 63,
           142, 70, 226, 193, 203, 171, 69, 151, 127, 156, 248, 74, 20, 89, 68, 141, 153, 193,
           221, 71, 69, 213, 171, 93, 21, 22, 40, 111, 233, 199, 139, 252, 9, 80, 75, 3, 4, 20,
           0, 0, 0, 8, 0, 0, 0, 33, 88, 206, 126, 175, 46, 165, 0, 0, 0, 224, 0, 0, 0, 17, 0, 0,
           0, 119, 111, 114, 100, 47, 100, 111, 99, 117, 109, 101, 110, 116, 46, 120, 109, 108,
           69, 142, 49, 14, 194, 48, 12, 69, 119, 78, 17, 121, 135, 20, 6, 132, 170, 54, 108,
           156, 0, 14, 16, 18, 3, 149, 26, 59, 178, 3, 133, 219, 147, 150, 129, 229, 89, 214,
           151, 223, 119, 119, 124, 167, 209, 188, 80, 116, 96, 234, 97, 187, 105, 192, 32, 5,
           142, 3, 221, 123, 184, 156, 79, 235, 3, 24, 45, 158, 162, 31, 153, 176, 135, 15, 42,
           28, 221, 170, 155, 218, 200, 225, 153, 144, 138, 169, 6, 210, 118, 234, 225, 81, 74,
           110, 173, 213, 240, 192, 228, 117, 195, 25, 169, 102, 55, 150, 228, 75, 93, 229, 110,
           39, 150, 152, 133, 3, 170, 214, 130, 52, 218, 93, 211, 236, 109, 242, 3, 129, 171,
           202, 43, 199, 207, 60, 243, 12, 153, 177, 216, 91, 205, 62, 212, 238, 44, 168, 40, 47,
           4, 103, 58, 91, 51, 55, 83, 22, 230, 133, 191, 123, 251, 255, 205, 125, 1, 80, 75, 1,
           2, 20, 3, 20, 0, 0, 0, 8, 0, 0, 0, 33, 88, 201, 79, 26, 176, 235, 0, 0, 0, 174, 1, 0,
           0, 19, 0, 0, 0, 0, 0, 0, 0, 0, 0, 0, 0, 128, 1, 0, 0, 0, 0, 91, 67, 111, 110, 116,
           101, 110, 116, 95, 84, 121, 112, 101, 115, 93, 46, 120, 109, 108, 80, 75, 1, 2, 20, 3,
           20, 0, 0, 0, 8, 0, 0, 0, 33, 88, 185, 129, 68, 113, 176, 0, 0, 0, 42, 1, 0, 0, 11, 0,
           0, 0, 0, 0, 0, 0, 0, 0, 0, 0, 128, 1, 28, 1, 0, 0, 95, 114, 101, 108, 115, 47, 46,
           114, 101, 108, 115, 80, 75, 1, 2, 20, 3, 20, 0, 0, 0, 8, 0, 0, 0, 33, 88, 206, 126,
           175, 46, 165, 0, 0, 0, 224, 0, 0, 0, 17, 0, 0, 0, 0, 0, 0, 0, 0, 0, 0, 0, 128, 1, 245,
           1, 0, 0, 119, 111, 114, 100, 47, 100, 111, 99, 117, 109, 101, 110, 116, 46, 120, 109,
           108, 80, 75, 5, 6, 0, 0, 0, 0, 3, 0, 3, 0, 185, 0, 0, 0, 201, 2, 0, 0, 0, 0>>
    [] format = "docx" /\ text = <<"a", " ", "b">> ->
         <<80, 75, 3, 4, 20, 0, 0, 0, 8, 0, 0, 0, 33, 88, 201, 79, 26, 176, 235, 0, 0, 0, 174, 1,
           0, 0, 19, 0, 0, 0, 91, 67, 111, 110, 116, 101, 110, 116, 95, 84, 121, 112, 101, 115,
           93, 46, 120, 109, 108, 125, 80, 189, 78, 195, 48, 16, 222, 121, 10, 203, 43, 138, 29,
           24, 16, 66, 73, 58, 240, 51, 2, 67, 121, 128, 147, 125, 73, 44, 236, 179, 229, 115,
           75, 251, 246, 56, 109, 233, 128, 10, 227, 221, 247, 171, 175, 91, 237, 130, 23, 91,
           204, 236, 34, 245, 242, 70, 181, 82, 32, 153, 104, 29, 77, 189, 252, 88, 191, 52, 247,
           82, 112, 1, 178, 224, 35, 97, 47, 247, 200, 114, 53, 92, 117, 235, 125, 66, 22, 85,
           76, 220, 203, 185, 148, 244, 160, 53, 155, 25, 3, 176, 138, 9, 169, 34, 99, 204, 1,
           74, 61, 243, 164, 19, 152, 79, 152, 80, 223, 182, 237, 157, 54, 145, 10, 82, 105, 202,
           226, 33, 135, 238, 9, 71, 216, 248, 34, 158, 119, 245, 125, 44, 146, 209, 179, 20,
           143, 71, 226, 146, 213, 75, 72, 201, 59, 3, 165, 226, 122, 75, 246, 87, 74, 115, 74,
           80, 85, 121, 224, 240, 236, 18, 95, 87, 130, 212, 23, 19, 22, 228, 239, 128, 147, 238,
           173, 46, 147, 157, 69, 241, 14, 185, 188, 66, 168, 44, 253, 21, 179, 213, 54, 154, 77,
           168, 74, 245, 191, 205, 133, 158, 113, 28, 157, 193, 179, 126, 113, 75, 57, 26, 100,
           174, 147, 7, 175, 206, 72, 0, 71, 63, 253, 245, 97, 238, 225, 27, 80, 75, 3, 4, 20, 0,
           0, 0, 8, 0, 0, 0, 33, 88, 185, 129, 68, 113, 176, 0, 0, 0, 42, 1, 0, 0, 11, 0, 0, 0,
           95, 114, 101, 108, 115, 47, 46, 114, 101, 108, 115, 141, 207, 59, 14, 194, 48, 12, 6,
           224, 157, 83, 68, 222, 105, 90, 6, 132, 80, 147, 46, 8, 169, 43, 42, 7, 136, 18, 55,
           141, 104, 30, 74, 194, 163, 183, 39, 3, 3, 32, 6, 70, 219, 191, 63, 203, 109, 247,
           176, 51, 185, 97, 76, 198, 59, 6, 77, 85, 3, 65, 39, 189, 50, 78, 51, 56, 15, 199,
           245, 14, 72, 202, 194, 41, 49, 123, 135, 12, 22, 76, 208, 241, 85, 123, 194, 89, 228,
           178, 147, 38, 19, 18, 41, 136, 75, 12, 166, 156, 195, 158, 210, 36, 39, 180, 34, 85,
           62, 160, 43, 147, 209, 71, 43, 114, 41, 163, 166, 65, 200, 139, 208, 72, 55, 117, 189,
           165, 241, 221, 0, 254, 97, 146, 94, 49, 136, 189, 106, 128, 12, 75, 192, 127, 108, 63,
           142, 70, 226, 193, 203, 171, 69, 151, 127, 156, 248, 74, 20, 89, 68, 141, 153, 193,
           221, 71, 69, 213, 171, 93, 21, 22, 40, 111, 233, 199, 139, 252, 9, 80, 75, 3, 4, 20,
           0, 0, 0, 8, 0, 0, 0, 33, 88, 254, 84, 131, 186, 166, 0, 0, 0, 226, 0, 0, 0, 17, 0, 0,
           0, 119, 111, 114, 100, 47, 100, 111, 99, 117, 109, 101, 110, 116, 46, 120, 109, 108,
           69, 142, 49, 14, 194, 48, 12, 69, 119, 78, 17, 121, 135, 20, 6, 132, 170, 54, 108,
           156, 0, 14, 16, 18, 3, 149, 26, 59, 178, 3, 133, 219, 147, 150, 129, 229, 125, 89, 95,
           122, 223, 221, 241, 157, 70, 243, 66, 209, 129, 169, 135, 237, 166, 1, 131, 20, 56,
           14, 116, 239, 225, 114, 62, 173, 15, 96, 180, 120, 138, 126, 100, 194, 30, 62, 168,
           112, 116, 171, 110, 106, 35, 135, 103, 66, 42, 166, 26, 72, 219, 169, 135, 71, 41,
           185, 181, 86, 195, 3, 147, 215, 13, 103, 164, 218, 221, 88, 146, 47, 245, 148, 187,
           157, 88, 98, 22, 14, 168, 90, 7, 210, 104, 119, 77, 179, 183, 201, 15, 4, 174, 42,
           175, 28, 63, 115, 230, 25, 50, 99, 177, 183, 154, 125, 168, 219, 89, 80, 81, 94, 8,
           206, 155, 107, 103, 107, 235, 102, 202, 194, 188, 240, 103, 176, 255, 239, 220, 23,
           80, 75, 1, 2, 20, 3, 20, 0, 0, 0, 8, 0, 0, 0, 33, 88, 201, 79, 26, 176, 235, 0, 0, 0,
           174, 1, 0, 0, 19, 0, 0, 0, 0, 0, 0, 0, 0, 0, 0, 0, 128, 1, 0, 0, 0, 0, 91, 67, 111,
           110, 116, 101, 110, 116, 95, 84, 121, 112, 101, 115, 93, 46, 120, 109, 108, 80, 75, 1,
           2, 20, 3, 20, 0, 0, 0, 8, 0, 0, 0, 33, 88, 185, 129, 68, 113, 176, 0, 0, 0, 42, 1, 0,
           0, 11, 0, 0, 0, 0, 0, 0, 0, 0, 0, 0, 0, 128, 1, 28, 1, 0, 0, 95, 114, 101, 108, 115,
           47, 46, 114, 101, 108, 115, 80, 75, 1, 2, 20, 3, 20, 0, 0, 0, 8, 0, 0, 0, 33, 88, 254,
           84, 131, 186, 166, 0, 0, 0, 226, 0, 0, 0, 17, 0, 0, 0, 0, 0, 0, 0, 0, 0, 0, 0, 128, 1,
           245, 1, 0, 0, 119, 111, 114, 100, 47, 100, 111, 99, 117, 109, 101, 110, 116, 46, 120,
           109, 108, 80, 75, 5, 6, 0, 0, 0, 0, 3, 0, 3, 0, 185, 0, 0, 0, 202, 2, 0, 0, 0, 0>>
    [] format = "docx" /\ text = <<"a", " ", "b", "\n", " ">> ->
         <<80, 75, 3, 4, 20, 0, 0, 0, 8, 0, 0, 0, 33, 88, 201, 79, 26, 176, 235, 0, 0, 0, 174, 1,
           0, 0, 19, 0, 0, 0, 91, 67, 111, 110, 116, 101, 110, 116, 95, 84, 121, 112, 101, 115,
           93, 46, 120, 109, 108, 125, 80, 189, 78, 195, 48, 16, 222, 121, 10, 203, 43, 138, 29,
           24, 16, 66, 73, 58, 240, 51, 2, 67, 121, 128, 147, 125, 73, 44, 236, 179, 229, 115,
           75, 251, 246, 56, 109, 233, 128, 10, 227, 221, 247, 171, 175, 91, 237, 130, 23, 91,
           204, 236, 34, 245, 242, 70, 181, 82, 32, 153, 104, 29, 77, 189, 252, 88, 191, 52, 247,
           82, 112, 1, 178, 224, 35, 97, 47, 247, 200, 114, 53, 92, 117, 235, 125, 66, 22, 85,
           76, 220, 203, 185, 148, 244, 160, 53, 155, 25, 3, 176, 138, 9, 169, 34, 99, 204, 1,
           74, 61, 243, 164, 19, 152, 79, 152, 80, 223, 182, 237, 157, 54, 145, 10, 82, 105, 202,
           226, 33, 135, 238, 9, 71, 216, 248, 34, 158, 119, 245, 125, 44, 146, 209, 179, 20,
           143, 71, 226, 146, 213, 75, 72, 201, 59, 3, 165, 226, 122, 75, 246, 87, 74, 115, 74,
           80, 85, 121, 224, 240, 236, 18, 95, 87, 130, 212, 23, 19, 22, 228, 239, 128, 147, 238,
           173, 46, 147, 157, 69, 241, 14, 185, 188, 66, 168, 44, 253, 21, 179, 213, 54, 154, 77,
           168, 74, 245, 191, 205, 133, 158, 113, 28, 157, 193, 179, 126, 113, 75, 57, 26, 100,
           174, 147, 7, 175, 206, 72, 0, 71, 63, 253, 245, 97, 238, 225, 27, 80, 75, 3, 4, 20, 0,
           0, 0, 8, 0, 0, 0, 33, 88, 185, 129, 68, 113, 176, 0, 0, 0, 42, 1, 0, 0, 11, 0, 0, 0,
           95, 114, 101, 108, 115, 47, 46, 114, 101, 108, 115, 141, 207, 59, 14, 194, 48, 12, 6,
           224, 157, 83, 68, 222, 105, 90, 6, 132, 80, 147, 46, 8, 169, 43, 42, 7, 136, 18, 55,
           141, 104, 30, 74, 194, 163, 183, 39, 3, 3, 32, 6, 70, 219, 191, 63, 203, 109, 247,
           176, 51, 185, 97, 76, 198, 59, 6, 77, 85, 3, 65, 39, 189, 50, 78, 51, 56, 15, 199,
           245, 14, 72, 202, 194, 41, 49, 123, 135, 12, 22, 76, 208, 241, 85, 123, 194, 89, 228,
           178, 147, 38, 19, 18, 41, 136, 75, 12, 166, 156, 195, 158, 210, 36, 39, 180, 34, 85,
           62, 160, 43, 147, 209, 71, 43, 114, 41, 163, 166, 65, 200, 139, 208, 72, 55, 117, 189,
           165, 241, 221, 0, 254, 97, 146, 94, 49, 136, 189, 106, 128, 12, 75, 192, 127, 108, 63,
           142, 70, 226, 193, 203, 171, 69, 151, 127, 156, 248, 74, 20, 89, 68, 141, 153, 193,
           221, 71, 69, 213, 171, 93, 21, 22, 40, 111, 233, 199, 139, 252, 9, 80, 75, 3, 4, 20,
           0, 0, 0, 8, 0, 0, 0, 33, 88, 177, 166, 154, 221, 177, 0, 0, 0, 25, 1, 0, 0, 17, 0, 0,
           0, 119, 111, 114, 100, 47, 100, 111, 99, 117, 109, 101, 110, 116, 46, 120, 109, 108,
           141, 143, 177, 110, 195, 48, 12, 68, 247, 126, 133, 192, 189, 145, 219, 33, 8, 12, 91,
           222, 242, 5, 201, 7, 200, 18, 155, 24, 176, 72, 129, 84, 227, 230, 239, 43, 27, 8,
           178, 100, 200, 242, 8, 226, 112, 119, 184, 110, 248, 75, 179, 185, 161, 232, 196, 212,
           195, 215, 174, 1, 131, 20, 56, 78, 116, 233, 225, 124, 58, 126, 30, 192, 104, 241, 20,
           253, 204, 132, 61, 220, 81, 97, 112, 31, 221, 210, 70, 14, 191, 9, 169, 152, 154, 64,
           218, 46, 61, 92, 75, 201, 173, 181, 26, 174, 152, 188, 238, 56, 35, 85, 237, 135, 37,
           249, 82, 95, 185, 216, 133, 37, 102, 225, 128, 170, 181, 32, 205, 246, 187, 105, 246,
           54, 249, 137, 192, 213, 200, 145, 227, 125, 189, 121, 133, 172, 216, 210, 91, 205, 62,
           212, 238, 44, 168, 40, 55, 4, 231, 205, 216, 217, 170, 186, 149, 178, 49, 191, 101,
           52, 47, 108, 246, 81, 108, 159, 163, 220, 63, 80, 75, 1, 2, 20, 3, 20, 0, 0, 0, 8, 0,
           0, 0, 33, 88, 201, 79, 26, 176, 235, 0, 0, 0, 174, 1, 0, 0, 19, 0, 0, 0, 0, 0, 0, 0,
           0, 0, 0, 0, 128, 1, 0, 0, 0, 0, 91, 67, 111, 110, 116, 101, 110, 116, 95, 84, 121,
           112, 101, 115, 93, 46, 120, 109, 108, 80, 75, 1, 2, 20, 3, 20, 0, 0, 0, 8, 0, 0, 0,
           33, 88, 185, 129, 68, 113, 176, 0, 0, 0, 42, 1, 0, 0, 11, 0, 0, 0, 0, 0, 0, 0, 0, 0,
           0, 0, 128, 1, 28, 1, 0, 0, 95, 114, 101, 108, 115, 47, 46, 114, 101, 108, 115, 80, 75,
           1, 2, 20, 3, 20, 0, 0, 0, 8, 0, 0, 0, 33, 88, 177, 166, 154, 221, 177, 0, 0, 0, 25, 1,
           0, 0, 17, 0, 0, 0, 0, 0, 0, 0, 0, 0, 0, 0, 128, 1, 245, 1, 0, 0, 119, 111, 114, 100,
           47, 100, 111, 99, 117, 109, 101, 110, 116, 46, 120, 109, 108, 80, 75, 5, 6, 0, 0, 0,
           0, 3, 0, 3, 0, 185, 0, 0, 0, 213, 2, 0, 0, 0, 0>>
    [] format = "pptx" /\ text = <<>> ->
         <<80, 75, 3, 4, 20, 0, 0, 0, 8, 0, 0, 0, 33, 88, 142, 146, 101, 2, 249, 0, 0, 0, 53, 2,
           0, 0, 19, 0, 0, 0, 91, 67, 111, 110, 116, 101, 110, 116, 95, 84, 121, 112, 101, 115,
           93, 46, 120, 109, 108, 173, 81, 59, 79, 195, 48, 16, 222, 249, 21, 150, 215, 42, 113,
           202, 128, 16, 74, 210, 129, 199, 8, 12, 229, 7, 156, 156, 75, 98, 213, 47, 249, 220,
           170, 253, 247, 92, 146, 34, 1, 42, 176, 48, 89, 119, 223, 83, 231, 122, 115, 116, 86,
           28, 48, 145, 9, 190, 145, 235, 178, 146, 2, 189, 14, 157, 241, 67, 35, 223, 182, 79,
           197, 173, 20, 148, 193, 119, 96, 131, 199, 70, 158, 144, 228, 166, 189, 170, 183, 167,
           136, 36, 88, 236, 169, 145, 99, 206, 241, 78, 41, 210, 35, 58, 160, 50, 68, 244, 140,
           244, 33, 57, 200, 60, 166, 65, 69, 208, 59, 24, 80, 93, 87, 213, 141, 210, 193, 103,
           244, 185, 200, 147, 135, 108, 235, 7, 236, 97, 111, 179, 120, 60, 242, 122, 41, 146,
           208, 146, 20, 247, 11, 113, 202, 106, 36, 196, 104, 141, 134, 204, 184, 58, 248, 238,
           91, 74, 113, 78, 40, 89, 57, 115, 104, 52, 145, 86, 76, 144, 234, 98, 194, 132, 252,
           28, 112, 214, 189, 240, 101, 146, 233, 80, 188, 66, 202, 207, 224, 152, 165, 98, 204,
           42, 38, 36, 214, 205, 220, 242, 119, 167, 11, 85, 67, 223, 27, 141, 93, 208, 123, 199,
           146, 242, 179, 153, 179, 95, 198, 210, 129, 241, 171, 63, 202, 144, 229, 37, 45, 207,
           250, 191, 219, 204, 174, 31, 13, 212, 252, 235, 237, 59, 80, 75, 3, 4, 20, 0, 0, 0, 8,
           0, 0, 0, 33, 88, 114, 78, 247, 159, 178, 0, 0, 0, 45, 1, 0, 0, 11, 0, 0, 0, 95, 114,
           101, 108, 115, 47, 46, 114, 101, 108, 115, 141, 207, 205, 10, 194, 48, 12, 7, 240,
           187, 79, 81, 114, 119, 221, 60, 136, 200, 186, 93, 68, 216, 85, 230, 3, 148, 54, 235,
           134, 235, 7, 77, 21, 247, 246, 22, 79, 78, 60, 120, 76, 242, 207, 47, 164, 110, 159,
           118, 102, 15, 140, 52, 121, 39, 160, 42, 74, 96, 232, 148, 215, 147, 51, 2, 174, 253,
           121, 123, 0, 70, 73, 58, 45, 103, 239, 80, 192, 130, 4, 109, 179, 169, 47, 56, 203,
           148, 119, 104, 156, 2, 177, 140, 56, 18, 48, 166, 20, 142, 156, 147, 26, 209, 74, 42,
           124, 64, 151, 39, 131, 143, 86, 166, 92, 70, 195, 131, 84, 55, 105, 144, 239, 202,
           114, 207, 227, 167, 1, 205, 202, 100, 157, 22, 16, 59, 93, 1, 235, 151, 128, 255, 216,
           126, 24, 38, 133, 39, 175, 238, 22, 93, 250, 113, 226, 43, 145, 101, 25, 13, 38, 1,
           33, 36, 30, 34, 82, 110, 190, 211, 69, 150, 129, 55, 53, 95, 125, 217, 188, 0, 80, 75,
           3, 4, 20, 0, 0, 0, 8, 0, 0, 0, 33, 88, 45, 21, 221, 60, 230, 0, 0, 0, 174, 1, 0, 0,
           20, 0, 0, 0, 112, 112, 116, 47, 112, 114, 101, 115, 101, 110, 116, 97, 116, 105, 111,
           110, 46, 120, 109, 108, 141, 144, 205, 106, 195, 48, 16, 132, 239, 125, 10, 177, 247,
           68, 118, 72, 140, 107, 44, 231, 82, 10, 129, 222, 218, 62, 128, 144, 214, 177, 64,
           127, 104, 213, 54, 233, 211, 87, 206, 79, 9, 180, 135, 220, 102, 153, 153, 111, 217,
           237, 183, 7, 103, 217, 39, 38, 50, 193, 11, 168, 151, 21, 48, 244, 42, 104, 227, 247,
           2, 222, 223, 158, 23, 45, 48, 202, 210, 107, 105, 131, 71, 1, 71, 36, 216, 14, 15,
           125, 236, 98, 66, 66, 159, 101, 46, 77, 86, 40, 158, 58, 41, 96, 202, 57, 118, 156,
           147, 154, 208, 73, 90, 134, 136, 190, 120, 99, 72, 78, 230, 50, 166, 61, 215, 73, 126,
           21, 186, 179, 124, 85, 85, 13, 119, 210, 120, 184, 244, 227, 61, 253, 219, 189, 255,
           65, 210, 61, 144, 48, 142, 70, 225, 83, 80, 31, 174, 176, 206, 144, 132, 246, 4, 165,
           201, 68, 130, 161, 156, 72, 86, 239, 244, 11, 229, 95, 205, 140, 22, 176, 218, 52,
           192, 82, 55, 203, 180, 211, 53, 240, 161, 231, 127, 178, 175, 223, 76, 29, 4, 60, 214,
           235, 117, 85, 149, 167, 170, 163, 128, 166, 221, 180, 243, 192, 231, 140, 15, 25, 233,
           146, 186, 26, 167, 212, 181, 114, 198, 222, 94, 59, 252, 0, 80, 75, 3, 4, 20, 0, 0, 0,
           8, 0, 0, 0, 33, 88, 33, 130, 202, 160, 176, 0, 0, 0, 33, 1, 0, 0, 31, 0, 0, 0, 112,
           112, 116, 47, 95, 114, 101, 108, 115, 47, 112, 114, 101, 115, 101, 110, 116, 97, 116,
           105, 111, 110, 46, 120, 109, 108, 46, 114, 101, 108, 115, 141, 207, 177, 10, 194, 48,
           16, 6, 224, 221, 167, 8, 183, 219, 180, 14, 34, 210, 180, 139, 8, 93, 165, 62, 64, 72,
           174, 109, 48, 77, 66, 46, 138, 125, 123, 131, 56, 88, 112, 112, 252, 239, 248, 191,
           227, 234, 246, 57, 91, 246, 192, 72, 198, 59, 1, 85, 81, 2, 67, 167, 188, 54, 110, 20,
           112, 237, 207, 219, 3, 48, 74, 210, 105, 105, 189, 67, 1, 11, 18, 180, 205, 166, 190,
           160, 149, 41, 119, 104, 50, 129, 88, 70, 28, 9, 152, 82, 10, 71, 206, 73, 77, 56, 75,
           42, 124, 64, 151, 55, 131, 143, 179, 76, 57, 198, 145, 7, 169, 110, 114, 68, 190, 43,
           203, 61, 143, 223, 6, 52, 43, 147, 117, 90, 64, 236, 116, 5, 172, 95, 2, 254, 99, 251,
           97, 48, 10, 79, 94, 221, 103, 116, 233, 199, 9, 78, 214, 104, 204, 160, 140, 35, 38,
           1, 239, 248, 153, 86, 69, 214, 128, 55, 53, 95, 125, 214, 188, 0, 80, 75, 3, 4, 20, 0,
           0, 0, 8, 0, 0, 0, 33, 88, 137, 17, 75, 222, 16, 1, 0, 0, 47, 2, 0, 0, 21, 0, 0, 0,
           112, 112, 116, 47, 115, 108, 105, 100, 101, 115, 47, 115, 108, 105, 100, 101, 49, 46,
           120, 109, 108, 141, 145, 203, 78, 195, 48, 16, 69, 247, 124, 133, 229, 61, 157, 180,
           11, 132, 162, 36, 149, 16, 130, 29, 170, 212, 240, 1, 38, 158, 38, 150, 252, 146, 199,
           132, 244, 239, 113, 94, 20, 81, 22, 221, 120, 108, 207, 189, 103, 198, 227, 98, 63,
           24, 205, 122, 12, 164, 156, 45, 249, 118, 147, 113, 134, 182, 113, 82, 217, 182, 228,
           239, 245, 203, 253, 35, 103, 20, 133, 149, 66, 59, 139, 37, 63, 35, 241, 125, 117, 87,
           248, 156, 180, 100, 201, 108, 41, 23, 37, 239, 98, 244, 57, 0, 53, 29, 26, 65, 27,
           231, 209, 166, 220, 201, 5, 35, 98, 58, 134, 22, 100, 16, 95, 9, 106, 52, 236, 178,
           236, 1, 140, 80, 150, 47, 126, 127, 139, 223, 7, 36, 180, 81, 196, 212, 232, 127, 144,
           112, 11, 196, 157, 78, 170, 193, 103, 215, 124, 154, 196, 154, 33, 1, 245, 4, 165, 78,
           121, 226, 85, 122, 89, 115, 212, 114, 140, 228, 235, 128, 56, 238, 108, 255, 26, 252,
           209, 31, 194, 148, 126, 235, 15, 129, 41, 153, 198, 197, 153, 21, 38, 77, 133, 195,
           146, 88, 100, 48, 155, 166, 13, 252, 177, 183, 191, 36, 228, 103, 225, 53, 122, 183,
           162, 107, 28, 226, 147, 27, 216, 246, 167, 198, 40, 102, 113, 72, 151, 99, 7, 87, 165,
           86, 22, 173, 69, 70, 169, 60, 87, 133, 200, 63, 82, 156, 46, 69, 158, 10, 195, 188,
           94, 4, 48, 55, 4, 151, 151, 195, 58, 12, 152, 254, 187, 250, 6, 80, 75, 1, 2, 20, 3,
           20, 0, 0, 0, 8, 0, 0, 0, 33, 88, 142, 146, 101, 2, 249, 0, 0, 0, 53, 2, 0, 0, 19, 0,
           0, 0, 0, 0, 0, 0, 0, 0, 0, 0, 128, 1, 0, 0, 0, 0, 91, 67, 111, 110, 116, 101, 110,
           116, 95, 84, 121, 112, 101, 115, 93, 46, 120, 109, 108, 80, 75, 1, 2, 20, 3, 20, 0, 0,
           0, 8, 0, 0, 0, 33, 88, 114, 78, 247, 159, 178, 0, 0, 0, 45, 1, 0, 0, 11, 0, 0, 0, 0,
           0, 0, 0, 0, 0, 0, 0, 128, 1, 42, 1, 0, 0, 95, 114, 101, 108, 115, 47, 46, 114, 101,
           108, 115, 80, 75, 1, 2, 20, 3, 20, 0, 0, 0, 8, 0, 0, 0, 33, 88, 45, 21, 221, 60, 230,
           0, 0, 0, 174, 1, 0, 0, 20, 0, 0, 0, 0, 0, 0, 0, 0, 0, 0, 0, 128, 1, 5, 2, 0, 0, 112,
           112, 116, 47, 112, 114, 101, 115, 101, 110, 116, 97, 116, 105, 111, 110, 46, 120, 109,
           108, 80, 75, 1, 2, 20, 3, 20, 0, 0, 0, 8, 0, 0, 0, 33, 88, 33, 130, 202, 160, 176, 0,
           0, 0, 33, 1, 0, 0, 31, 0, 0, 0, 0, 0, 0, 0, 0, 0, 0, 0, 128, 1, 29, 3, 0, 0, 112, 112,
           116, 47, 95, 114, 101, 108, 115, 47, 112, 114, 101, 115, 101, 110, 116, 97, 116, 105,
           111, 110, 46, 120, 109, 108, 46, 114, 101, 108, 115, 80, 75, 1, 2, 20, 3, 20, 0, 0, 0,
           8, 0, 0, 0, 33, 88, 137, 17, 75, 222, 16, 1, 0, 0, 47, 2, 0, 0, 21, 0, 0, 0, 0, 0, 0,
           0, 0, 0, 0, 0, 128, 1, 10, 4, 0, 0, 112, 112, 116, 47, 115, 108, 105, 100, 101, 115,
           47, 115, 108, 105, 100, 101, 49, 46, 120, 109, 108, 80, 75, 5, 6, 0, 0, 0, 0, 5, 0, 5,
           0, 76, 1, 0, 0, 77, 5, 0, 0, 0, 0>>
    [] format = "pptx" /\ text = <<" ">> ->
         <<80, 75, 3, 4, 20, 0, 0, 0, 8, 0, 0, 0, 33, 88, 142, 146, 101, 2, 249, 0, 0, 0, 53, 2,
           0, 0, 19, 0, 0, 0, 91, 67, 111, 110, 116, 101, 110, 116, 95, 84, 121, 112, 101, 115,
           93, 46, 120, 109, 108, 173, 81, 59, 79, 195, 48, 16, 222, 249, 21, 150, 215, 42, 113,
           202, 128, 16, 74, 210, 129, 199, 8, 12, 229, 7, 156, 156, 75, 98, 213, 47, 249, 220,
           170, 253, 247, 92, 146, 34, 1, 42, 176, 48, 89, 119, 223, 83, 231, 122, 115, 116, 86,
           28, 48, 145, 9, 190, 145, 235, 178, 146, 2, 189, 14, 157, 241, 67, 35, 223, 182, 79,
           197, 173, 20, 148, 193, 119, 96, 131, 199, 70, 158, 144, 228, 166, 189, 170, 183, 167,
           136, 36, 88, 236, 169, 145, 99, 206, 241, 78, 41, 210, 35, 58, 160, 50, 68, 244, 140,
           244, 33, 57, 200, 60, 166, 65, 69, 208, 59, 24, 80, 93, 87, 213, 141, 210, 193, 103,
           244, 185, 200, 147, 135, 108, 235, 7, 236, 97, 111, 179, 120, 60, 242, 122, 41, 146,
           208, 146, 20, 247, 11, 113, 202, 106, 36, 196, 104, 141, 134, 204, 184, 58, 248, 238,
           91, 74, 113, 78, 40, 89, 57, 115, 104, 52, 145, 86, 76, 144, 234, 98, 194, 132, 252,
           28, 112, 214, 189, 240, 101, 146, 233, 80, 188, 66, 202, 207, 224, 152, 165, 98, 204,
           42, 38, 36, 214, 205, 220, 242, 119, 167, 11, 85, 67, 223, 27, 141, 93, 208, 123, 199,
           146, 242, 179, 153, 179, 95, 198, 210, 129, 241, 171, 63, 202, 144, 229, 37, 45, 207,
           250, 191, 219, 204, 174, 31, 13, 212, 252, 235, 237, 59, 80, 75, 3, 4, 20, 0, 0, 0, 8,
           0, 0, 0, 33, 88, 114, 78, 247, 159, 178, 0, 0, 0, 45, 1, 0, 0, 11, 0, 0, 0, 95, 114,
           101, 108, 115, 47, 46, 114, 101, 108, 115, 141, 207, 205, 10, 194, 48, 12, 7, 240,
           187, 79, 81, 114, 119, 221, 60, 136, 200, 186, 93, 68, 216, 85, 230, 3, 148, 54, 235,
           134, 235, 7, 77, 21, 247, 246, 22, 79, 78, 60, 120, 76, 242, 207, 47, 164, 110, 159,
           118, 102, 15, 140, 52, 121, 39, 160, 42, 74, 96, 232, 148, 215, 147, 51, 2, 174, 253,
           121, 123, 0, 70, 73, 58, 45, 103, 239, 80, 192, 130, 4, 109, 179, 169, 47, 56, 203,
           148, 119, 104, 156, 2, 177, 140, 56, 18, 48, 166, 20, 142, 156, 147, 26, 209, 74, 42,
           124, 64, 151, 39, 131, 143, 86, 166, 92, 70, 195, 131, 84, 55, 105, 144, 239, 202,
           114, 207, 227, 167, 1, 205, 202, 100, 157, 22, 16, 59, 93, 1, 235, 151, 128, 255, 216,
           126, 24, 38, 133, 39, 175, 238, 22, 93, 250, 113, 226, 43, 145, 101, 25, 13, 38, 1,
           33, 36, 30, 34, 82, 110, 190, 211, 69, 150, 129, 55, 53, 95, 125, 217, 188, 0, 80, 75,
           3, 4, 20, 0, 0, 0, 8, 0, 0, 0, 33, 88, 45, 21, 221, 60, 230, 0, 0, 0, 174, 1, 0, 0,
           20, 0, 0, 0, 112, 112, 116, 47, 112, 114, 101, 115, 101, 110, 116, 97, 116, 105, 111,
           110, 46, 120, 109, 108, 141, 144, 205, 106, 195, 48, 16, 132, 239, 125, 10, 177, 247,
           68, 118, 72, 140, 107, 44, 231, 82, 10, 129, 222, 218, 62, 128, 144, 214, 177, 64,
           127, 104, 213, 54, 233, 211, 87, 206, 79, 9, 180, 135, 220, 102, 153, 153, 111, 217,
           237, 183, 7, 103, 217, 39, 38, 50, 193, 11, 168, 151, 21, 48, 244, 42, 104, 227, 247,
           2, 222, 223, 158, 23, 45, 48, 202, 210, 107, 105, 131, 71, 1, 71, 36, 216, 14, 15,
           125, 236, 98, 66, 66, 159, 101, 46, 77, 86, 40, 158, 58, 41, 96, 202, 57, 118, 156,
           147, 154, 208, 73, 90, 134, 136, 190, 120, 99, 72, 78, 230, 50, 166, 61, 215, 73, 126,
           21, 186, 179, 124, 85, 85, 13, 119, 210, 120, 184, 244, 227, 61, 253, 219, 189, 255,
           65, 210, 61, 144, 48, 142, 70, 225, 83, 80, 31, 174, 176, 206, 144, 132, 246, 4, 165,
           201, 68, 130, 161, 156, 72, 86, 239, 244, 11, 229, 95, 205, 140, 22, 176, 218, 52,
           192, 82, 55, 203, 180, 211, 53, 240, 161, 231, 127, 178, 175, 223, 76, 29, 4, 60, 214,
           235, 117, 85, 149, 167, 170, 163, 128, 166, 221, 180, 243, 192, 231, 140, 15, 25, 233,
           146, 186, 26, 167, 212, 181, 114, 198, 222, 94, 59, 252, 0, 80, 75, 3, 4, 20, 0, 0, 0,
           8, 0, 0, 0, 33, 88, 33, 130, 202, 160, 176, 0, 0, 0, 33, 1, 0, 0, 31, 0, 0, 0, 112,
           112, 116, 47, 95, 114, 101, 108, 115, 47, 112, 114, 101, 115, 101, 110, 116, 97, 116,
           105, 111, 110, 46, 120, 109, 108, 46, 114, 101, 108, 115, 141, 207, 177, 10, 194, 48,
           16, 6, 224, 221, 167, 8, 183, 219, 180, 14, 34, 210, 180, 139, 8, 93, 165, 62, 64, 72,
           174, 109, 48, 77, 66, 46, 138, 125, 123, 131, 56, 88, 112, 112, 252, 239, 248, 191,
           227, 234, 246, 57, 91, 246, 192, 72, 198, 59, 1, 85, 81, 2, 67, 167, 188, 54, 110, 20,
           112, 237, 207, 219, 3, 48, 74, 210, 105, 105, 189, 67, 1, 11, 18, 180, 205, 166, 190,
           160, 149, 41, 119, 104, 50, 129, 88, 70, 28, 9, 152, 82, 10, 71, 206, 73, 77, 56, 75,
           42, 124, 64, 151, 55, 131, 143, 179, 76, 57, 198, 145, 7, 169, 110, 114, 68, 190, 43,
           203, 61, 143, 223, 6, 52, 43, 147, 117, 90, 64, 236, 116, 5, 172, 95, 2, 254, 99, 251,
           97, 48, 10, 79, 94, 221, 103, 116, 233, 199, 9, 78, 214, 104, 204, 160, 140, 35, 38,
           1, 239, 248, 153, 86, 69, 214, 128, 55, 53, 95, 125, 214, 188, 0, 80, 75, 3, 4, 20, 0,
           0, 0, 8, 0, 0, 0, 33, 88, 161, 1, 243, 127, 27, 1, 0, 0, 70, 2, 0, 0, 21, 0, 0, 0,
           112, 112, 116, 47, 115, 108, 105, 100, 101, 115, 47, 115, 108, 105, 100, 101, 49, 46,
           120, 109, 108, 141, 146, 207, 78, 195, 48, 12, 198, 239, 60, 69, 148, 59, 243, 182, 3,
           66, 85, 219, 73, 19, 130, 27, 154, 180, 242, 0, 161, 241, 182, 74, 205, 31, 217, 161,
           116, 111, 79, 146, 174, 128, 24, 135, 93, 236, 36, 254, 190, 159, 93, 171, 229, 102,
           52, 189, 24, 144, 184, 115, 182, 146, 171, 197, 82, 10, 180, 173, 211, 157, 61, 86,
           242, 173, 121, 190, 127, 148, 130, 131, 178, 90, 245, 206, 98, 37, 207, 200, 114, 83,
           223, 149, 190, 224, 94, 139, 104, 182, 92, 168, 74, 158, 66, 240, 5, 0, 183, 39, 52,
           138, 23, 206, 163, 141, 181, 131, 35, 163, 66, 188, 210, 17, 52, 169, 207, 8, 53, 61,
           172, 151, 203, 7, 48, 170, 179, 242, 226, 247, 183, 248, 61, 33, 163, 13, 42, 196, 65,
           255, 131, 208, 45, 16, 119, 56, 116, 45, 62, 185, 246, 195, 68, 214, 4, 33, 236, 51,
           148, 79, 157, 103, 89, 199, 47, 107, 247, 189, 78, 153, 125, 67, 136, 233, 100, 135,
           23, 242, 123, 191, 163, 92, 126, 29, 118, 36, 58, 29, 215, 37, 133, 85, 38, 110, 69,
           194, 165, 112, 145, 193, 100, 202, 7, 248, 99, 63, 254, 146, 176, 159, 132, 215, 232,
           245, 140, 110, 112, 12, 91, 55, 138, 213, 119, 143, 36, 22, 97, 140, 143, 105, 130,
           171, 86, 51, 139, 231, 38, 73, 170, 207, 117, 169, 138, 247, 152, 243, 163, 42, 124,
           10, 148, 66, 168, 69, 9, 41, 165, 72, 57, 250, 140, 154, 125, 48, 205, 9, 63, 11, 129,
           121, 71, 144, 127, 131, 250, 11, 80, 75, 1, 2, 20, 3, 20, 0, 0, 0, 8, 0, 0, 0, 33, 88,
           142, 146, 101, 2, 249, 0, 0, 0, 53, 2, 0, 0, 19, 0, 0, 0, 0, 0, 0, 0, 0, 0, 0, 0, 128,
           1, 0, 0, 0, 0, 91, 67, 111, 110, 116, 101, 110, 116, 95, 84, 121, 112, 101, 115, 93,
           46, 120, 109, 108, 80, 75, 1, 2, 20, 3, 20, 0, 0, 0, 8, 0, 0, 0, 33, 88, 114, 78, 247,
           159, 178, 0, 0, 0, 45, 1, 0, 0, 11, 0, 0, 0, 0, 0, 0, 0, 0, 0, 0, 0, 128, 1, 42, 1, 0,
           0, 95, 114, 101, 108, 115, 47, 46, 114, 101, 108, 115, 80, 75, 1, 2, 20, 3, 20, 0, 0,
           0, 8, 0, 0, 0, 33, 88, 45, 21, 221, 60, 230, 0, 0, 0, 174, 1, 0, 0, 20, 0, 0, 0, 0, 0,
           0, 0, 0, 0, 0, 0, 128, 1, 5, 2, 0, 0, 112, 112, 116, 47, 112, 114, 101, 115, 101, 110,
           116, 97, 116, 105, 111, 110, 46, 120, 109, 108, 80, 75, 1, 2, 20, 3, 20, 0, 0, 0, 8,
           0, 0, 0, 33, 88, 33, 130, 202, 160, 176, 0, 0, 0, 33, 1, 0, 0, 31, 0, 0, 0, 0, 0, 0,
           0, 0, 0, 0, 0, 128, 1, 29, 3, 0, 0, 112, 112, 116, 47, 95, 114, 101, 108, 115, 47,
           112, 114, 101, 115, 101, 110, 116, 97, 116, 105, 111, 110, 46, 120, 109, 108, 46, 114,
           101, 108, 115, 80, 75, 1, 2, 20, 3, 20, 0, 0, 0, 8, 0, 0, 0, 33, 88, 161, 1, 243, 127,
           27, 1, 0, 0, 70, 2, 0, 0, 21, 0, 0, 0, 0, 0, 0, 0, 0, 0, 0, 0, 128, 1, 10, 4, 0, 0,
           112, 112, 116, 47, 115, 108, 105, 100, 101, 115, 47, 115, 108, 105, 100, 101, 49, 46,
           120, 109, 108, 80, 75, 5, 6, 0, 0, 0, 0, 5, 0, 5, 0, 76, 1, 0, 0, 88, 5, 0, 0, 0, 0>>
    [] format = "pptx" /\ text = <<"a", " ", "b">> ->
         <<80, 75, 3, 4, 20, 0, 0, 0, 8, 0, 0, 0, 33, 88, 142, 146, 101, 2, 249, 0, 0, 0, 53, 2,
           0, 0, 19, 0, 0, 0, 91, 67, 111, 110, 116, 101, 110, 116, 95, 84, 121, 112, 101, 115,
           93, 46, 120, 109, 108, 173, 81, 59, 79, 195, 48, 16, 222, 249, 21, 150, 215, 42, 113,
           202, 128, 16, 74, 210, 129, 199, 8, 12, 229, 7, 156, 156, 75, 98, 213, 47, 249, 220,
           170, 253, 247, 92, 146, 34, 1, 42, 176, 48, 89, 119, 223, 83, 231, 122, 115, 116, 86,
           28, 48, 145, 9, 190, 145, 235, 178, 146, 2, 189, 14, 157, 241, 67, 35, 223, 182, 79,
           197, 173, 20, 148, 193, 119, 96, 131, 199, 70, 158, 144, 228, 166, 189, 170, 183, 167,
           136, 36, 88, 236, 169, 145, 99, 206, 241, 78, 41, 210, 35, 58, 160, 50, 68, 244, 140,
           244, 33, 57, 200, 60, 166, 65, 69, 208, 59, 24, 80, 93, 87, 213, 141, 210, 193, 103,
           244, 185, 200, 147, 135, 108, 235, 7, 236, 97, 111, 179, 120, 60, 242, 122, 41, 146,
           208, 146, 20, 247, 11, 113, 202, 106, 36, 196, 104, 141, 134, 204, 184, 58, 248, 238,
           91, 74, 113, 78, 40, 89, 57, 115, 104, 52, 145, 86, 76, 144, 234, 98, 194, 132, 252,
           28, 112, 214, 189, 240, 101, 146, 233, 80, 188, 66, 202, 207, 224, 152, 165, 98, 204,
           42, 38, 36, 214, 205, 220, 242, 119, 167, 11, 85, 67, 223, 27, 141, 93, 208, 123, 199,
           146, 242, 179, 153, 179, 95, 198, 210, 129, 241, 171, 63, 202, 144, 229, 37, 45, 207,
           250, 191, 219, 204, 174, 31, 13, 212, 252, 235, 237, 59, 80, 75, 3, 4, 20, 0, 0, 0, 8,
           0, 0, 0, 33, 88, 114, 78, 247, 159, 178, 0, 0, 0, 45, 1, 0, 0, 11, 0, 0, 0, 95, 114,
           101, 108, 115, 47, 46, 114, 101, 108, 115, 141, 207, 205, 10, 194, 48, 12, 7, 240,
           187, 79, 81, 114, 119, 221, 60, 136, 200, 186, 93, 68, 216, 85, 230, 3, 148, 54, 235,
           134, 235, 7, 77, 21, 247, 246, 22, 79, 78, 60, 120, 76, 242, 207, 47, 164, 110, 159,
           118, 102, 15, 140, 52, 121, 39, 160, 42, 74, 96, 232, 148, 215, 147, 51, 2, 174, 253,
           121, 123, 0, 70, 73, 58, 45, 103, 239, 80, 192, 130, 4, 109, 179, 169, 47, 56, 203,
           148, 119, 104, 156, 2, 177, 140, 56, 18, 48, 166, 20, 142, 156, 147, 26, 209, 74, 42,
           124, 64, 151, 39, 131, 143, 86, 166, 92, 70, 195, 131, 84, 55, 105, 144, 239, 202,
           114, 207, 227, 167, 1, 205, 202, 100, 157, 22, 16, 59, 93, 1, 235, 151, 128, 255, 216,
           126, 24, 38, 133, 39, 175, 238, 22, 93, 250, 113, 226, 43, 145, 101, 25, 13, 38, 1,
           33, 36, 30, 34, 82, 110, 190, 211, 69, 150, 129, 55, 53, 95, 125, 217, 188, 0, 80, 75,
           3, 4, 20, 0, 0, 0, 8, 0, 0, 0, 33, 88, 45, 21, 221, 60, 230, 0, 0, 0, 174, 1, 0, 0,
           20, 0, 0, 0, 112, 112, 116, 47, 112, 114, 101, 115, 101, 110, 116, 97, 116, 105, 111,
           110, 46, 120, 109, 108, 141, 144, 205, 106, 195, 48, 16, 132, 239, 125, 10, 177, 247,
           68, 118, 72, 140, 107, 44, 231, 82, 10, 129, 222, 218, 62, 128, 144, 214, 177, 64,
           127, 104, 213, 54, 233, 211, 87, 206, 79, 9, 180, 135, 220, 102, 153, 153, 111, 217,
           237, 183, 7, 103, 217, 39, 38, 50, 193, 11, 168, 151, 21, 48, 244, 42, 104, 227, 247,
           2, 222, 223, 158, 23, 45, 48, 202, 210, 107, 105, 131, 71, 1, 71, 36, 216, 14, 15,
           125, 236, 98, 66, 66, 159, 101, 46, 77, 86, 40, 158, 58, 41, 96, 202, 57, 118, 156,
           147, 154, 208, 73, 90, 134, 136, 190, 120, 99, 72, 78, 230, 50, 166, 61, 215, 73, 126,
           21, 186, 179, 124, 85, 85, 13, 119, 210, 120, 184, 244, 227, 61, 253, 219, 189, 255,
           65, 210, 61, 144, 48, 142, 70, 225, 83, 80, 31, 174, 176, 206, 144, 132, 246, 4, 165,
           201, 68, 130, 161, 156, 72, 86, 239, 244, 11, 229, 95, 205, 140, 22, 176, 218, 52,
           192, 82, 55, 203, 180, 211, 53, 240, 161, 231, 127, 178, 175, 223, 76, 29, 4, 60, 214,
           235, 117, 85, 149, 167, 170, 163, 128, 166, 221, 180, 243, 192, 231, 140, 15, 25, 233,
           146, 186, 26, 167, 212, 181, 114, 198, 222, 94, 59, 252, 0, 80, 75, 3, 4, 20, 0, 0, 0,
           8, 0, 0, 0, 33, 88, 33, 130, 202, 160, 176, 0, 0, 0, 33, 1, 0, 0, 31, 0, 0, 0, 112,
           112, 116, 47, 95, 114, 101, 108, 115, 47, 112, 114, 101, 115, 101, 110, 116, 97, 116,
           105, 111, 110, 46, 120, 109, 108, 46, 114, 101, 108, 115, 141, 207, 177, 10, 194, 48,
           16, 6, 224, 221, 167, 8, 183, 219, 180, 14, 34, 210, 180, 139, 8, 93, 165, 62, 64, 72,
           174, 109, 48, 77, 66, 46, 138, 125, 123, 131, 56, 88, 112, 112, 252, 239, 248, 191,
           227, 234, 246, 57, 91, 246, 192, 72, 198, 59, 1, 85, 81, 2, 67, 167, 188, 54, 110, 20,
           112, 237, 207, 219, 3, 48, 74, 210, 105, 105, 189, 67, 1, 11, 18, 180, 205, 166, 190,
           160, 149, 41, 119, 104, 50, 129, 88, 70, 28, 9, 152, 82, 10, 71, 206, 73, 77, 56, 75,
           42, 124, 64, 151, 55, 131, 143, 179, 76, 57, 198, 145, 7, 169, 110, 114, 68, 190, 43,
           203, 61, 143, 223, 6, 52, 43, 147, 117, 90, 64, 236, 116, 5, 172, 95, 2, 254, 99, 251,
           97, 48, 10, 79, 94, 221, 103, 116, 233, 199, 9, 78, 214, 104, 204, 160, 140, 35, 38,
           1, 239, 248, 153, 86, 69, 214, 128, 55, 53, 95, 125, 214, 188, 0, 80, 75, 3, 4, 20, 0,
           0, 0, 8, 0, 0, 0, 33, 88, 211, 108, 198, 204, 29, 1, 0, 0, 72, 2, 0, 0, 21, 0, 0, 0,
           112, 112, 116, 47, 115, 108, 105, 100, 101, 115, 47, 115, 108, 105, 100, 101, 49, 46,
           120, 109, 108, 141, 146, 207, 78, 195, 48, 12, 198, 239, 60, 69, 148, 59, 243, 182, 3,
           66, 85, 219, 73, 8, 193, 13, 77, 90, 121, 128, 172, 241, 182, 74, 205, 31, 217, 161,
           116, 111, 79, 146, 174, 128, 24, 135, 93, 28, 39, 254, 190, 159, 93, 171, 229, 102,
           52, 189, 24, 144, 184, 115, 182, 146, 171, 197, 82, 10, 180, 173, 211, 157, 61, 86,
           242, 189, 121, 185, 127, 148, 130, 131, 178, 90, 245, 206, 98, 37, 207, 200, 114, 83,
           223, 149, 190, 224, 94, 139, 104, 182, 92, 168, 74, 158, 66, 240, 5, 0, 183, 39, 52,
           138, 23, 206, 163, 141, 181, 131, 35, 163, 66, 188, 210, 17, 52, 169, 207, 8, 53, 61,
           172, 151, 203, 7, 48, 170, 179, 242, 226, 247, 183, 248, 61, 33, 163, 13, 42, 196, 65,
           255, 131, 208, 45, 16, 119, 56, 116, 45, 62, 187, 246, 195, 68, 214, 4, 33, 236, 51,
           148, 79, 157, 103, 89, 199, 47, 107, 119, 189, 78, 39, 251, 134, 16, 83, 102, 135, 87,
           242, 59, 191, 165, 92, 126, 27, 182, 36, 58, 29, 215, 37, 133, 85, 38, 110, 69, 194,
           165, 112, 145, 193, 100, 202, 9, 252, 177, 31, 127, 73, 216, 79, 194, 107, 244, 122,
           70, 55, 56, 134, 39, 55, 138, 213, 119, 143, 36, 22, 97, 140, 143, 105, 130, 171, 86,
           51, 139, 231, 38, 73, 170, 207, 117, 169, 138, 125, 60, 243, 163, 42, 124, 10, 148,
           66, 168, 149, 216, 151, 144, 146, 20, 41, 71, 159, 97, 179, 19, 166, 73, 225, 103, 37,
           48, 111, 9, 242, 143, 80, 127, 1, 80, 75, 1, 2, 20, 3, 20, 0, 0, 0, 8, 0, 0, 0, 33,
           88, 142, 146, 101, 2, 249, 0, 0, 0, 53, 2, 0, 0, 19, 0, 0, 0, 0, 0, 0, 0, 0, 0, 0, 0,
           128, 1, 0, 0, 0, 0, 91, 67, 111, 110, 116, 101, 110, 116, 95, 84, 121, 112, 101, 115,
           93, 46, 120, 109, 108, 80, 75, 1, 2, 20, 3, 20, 0, 0, 0, 8, 0, 0, 0, 33, 88, 114, 78,
           247, 159, 178, 0, 0, 0, 45, 1, 0, 0, 11, 0, 0, 0, 0, 0, 0, 0, 0, 0, 0, 0, 128, 1, 42,
           1, 0, 0, 95, 114, 101, 108, 115, 47, 46, 114, 101, 108, 115, 80, 75, 1, 2, 20, 3, 20,
           0, 0, 0, 8, 0, 0, 0, 33, 88, 45, 21, 221, 60, 230, 0, 0, 0, 174, 1, 0, 0, 20, 0, 0, 0,
           0, 0, 0, 0, 0, 0, 0, 0, 128, 1, 5, 2, 0, 0, 112, 112, 116, 47, 112, 114, 101, 115,
           101, 110, 116, 97, 116, 105, 111, 110, 46, 120, 109, 108, 80, 75, 1, 2, 20, 3, 20, 0,
           0, 0, 8, 0, 0, 0, 33, 88, 33, 130, 202, 160, 176, 0, 0, 0, 33, 1, 0, 0, 31, 0, 0, 0,
           0, 0, 0, 0, 0, 0, 0, 0, 128, 1, 29, 3, 0, 0, 112, 112, 116, 47, 95, 114, 101, 108,
           115, 47, 112, 114, 101, 115, 101, 110, 116, 97, 116, 105, 111, 110, 46, 120, 109, 108,
           46, 114, 101, 108, 115, 80, 75, 1, 2, 20, 3, 20, 0, 0, 0, 8, 0, 0, 0, 33, 88, 211,
           108, 198, 204, 29, 1, 0, 0, 72, 2, 0, 0, 21, 0, 0, 0, 0, 0, 0, 0, 0, 0, 0, 0, 128, 1,
           10, 4, 0, 0, 112, 112, 116, 47, 115, 108, 105, 100, 101, 115, 47, 115, 108, 105, 100,
           101, 49, 46, 120, 109, 108, 80, 75, 5, 6, 0, 0, 0, 0, 5, 0, 5, 0, 76, 1, 0, 0, 90, 5,
           0, 0, 0, 0>>
    [] format = "pptx" /\ text = <<"a", " ", "b", "\n", " ">> ->
         <<80, 75, 3, 4, 20, 0, 0, 0, 8, 0, 0, 0, 33, 88, 142, 146, 101, 2, 249, 0, 0, 0, 53, 2,
           0, 0, 19, 0, 0, 0, 91, 67, 111, 110, 116, 101, 110, 116, 95, 84, 121, 112, 101, 115,
           93, 46, 120, 109, 108, 173, 81, 59, 79, 195, 48, 16, 222, 249, 21, 150, 215, 42, 113,
           202, 128, 16, 74, 210, 129, 199, 8, 12, 229, 7, 156, 156, 75, 98, 213, 47, 249, 220,
           170, 253, 247, 92, 146, 34, 1, 42, 176, 48, 89, 119, 223, 83, 231, 122, 115, 116, 86,
           28, 48, 145, 9, 190, 145, 235, 178, 146, 2, 189, 14, 157, 241, 67, 35, 223, 182, 79,
           197, 173, 20, 148, 193, 119, 96, 131, 199, 70, 158, 144, 228, 166, 189, 170, 183, 167,
           136, 36, 88, 236, 169, 145, 99, 206, 241, 78, 41, 210, 35, 58, 160, 50, 68, 244, 140,
           244, 33, 57, 200, 60, 166, 65, 69, 208, 59, 24, 80, 93, 87, 213, 141, 210, 193, 103,
           244, 185, 200, 147, 135, 108, 235, 7, 236, 97, 111, 179, 120, 60, 242, 122, 41, 146,
           208, 146, 20, 247, 11, 113, 202, 106, 36, 196, 104, 141, 134, 204, 184, 58, 248, 238,
           91, 74, 113, 78, 40, 89, 57, 115, 104, 52, 145, 86, 76, 144, 234, 98, 194, 132, 252,
           28, 112, 214, 189, 240, 101, 146, 233, 80, 188, 66, 202, 207, 224, 152, 165, 98, 204,
           42, 38, 36, 214, 205, 220, 242, 119, 167, 11, 85, 67, 223, 27, 141, 93, 208, 123, 199,
           146, 242, 179, 153, 179, 95, 198, 210, 129, 241, 171, 63, 202, 144, 229, 37, 45, 207,
           250, 191, 219, 204, 174, 31, 13, 212, 252, 235, 237, 59, 80, 75, 3, 4, 20, 0, 0, 0, 8,
           0, 0, 0, 33, 88, 114, 78, 247, 159, 178, 0, 0, 0, 45, 1, 0, 0, 11, 0, 0, 0, 95, 114,
           101, 108, 115, 47, 46, 114, 101, 108, 115, 141, 207, 205, 10, 194, 48, 12, 7, 240,
           187, 79, 81, 114, 119, 221, 60, 136, 200, 186, 93, 68, 216, 85, 230, 3, 148, 54, 235,
           134, 235, 7, 77, 21, 247, 246, 22, 79, 78, 60, 120, 76, 242, 207, 47, 164, 110, 159,
           118, 102, 15, 140, 52, 121, 39, 160, 42, 74, 96, 232, 148, 215, 147, 51, 2, 174, 253,
           121, 123, 0, 70, 73, 58, 45, 103, 239, 80, 192, 130, 4, 109, 179, 169, 47, 56, 203,
           148, 119, 104, 156, 2, 177, 140, 56, 18, 48, 166, 20, 142, 156, 147, 26, 209, 74, 42,
           124, 64, 151, 39, 131, 143, 86, 166, 92, 70, 195, 131, 84, 55, 105, 144, 239, 202,
           114, 207, 227, 167, 1, 205, 202, 100, 157, 22, 16, 59, 93, 1, 235, 151, 128, 255, 216,
           126, 24, 38, 133, 39, 175, 238, 22, 93, 250, 113, 226, 43, 145, 101, 25, 13, 38, 1,
           33, 36, 30, 34, 82, 110, 190, 211, 69, 150, 129, 55, 53, 95, 125, 217, 188, 0, 80, 75,
           3, 4, 20, 0, 0, 0, 8, 0, 0, 0, 33, 88, 45, 21, 221, 60, 230, 0, 0, 0, 174, 1, 0, 0,
           20, 0, 0, 0, 112, 112, 116, 47, 112, 114, 101, 115, 101, 110, 116, 97, 116, 105, 111,
           110, 46, 120, 109, 108, 141, 144, 205, 106, 195, 48, 16, 132, 239, 125, 10, 177, 247,
           68, 118, 72, 140, 107, 44, 231, 82, 10, 129, 222, 218, 62, 128, 144, 214, 177, 64,
           127, 104, 213, 54, 233, 211, 87, 206, 79, 9, 180, 135, 220, 102, 153, 153, 111, 217,
           237, 183, 7, 103, 217, 39, 38, 50, 193, 11, 168, 151, 21, 48, 244, 42, 104, 227, 247,
           2, 222, 223, 158, 23, 45, 48, 202, 210, 107, 105, 131, 71, 1, 71, 36, 216, 14, 15,
           125, 236, 98, 66, 66, 159, 101, 46, 77, 86, 40, 158, 58, 41, 96, 202, 57, 118, 156,
           147, 154, 208, 73, 90, 134, 136, 190, 120, 99, 72, 78, 230, 50, 166, 61, 215, 73, 126,
           21, 186, 179, 124, 85, 85, 13, 119, 210, 120, 184, 244, 227, 61, 253, 219, 189, 255,
           65, 210, 61, 144, 48, 142, 70, 225, 83, 80, 31, 174, 176, 206, 144, 132, 246, 4, 165,
           201, 68, 130, 161, 156, 72, 86, 239, 244, 11, 229, 95, 205, 140, 22, 176, 218, 52,
           192, 82, 55, 203, 180, 211, 53, 240, 161, 231, 127, 178, 175, 223, 76, 29, 4, 60, 214,
           235, 117, 85, 149, 167, 170, 163, 128, 166, 221, 180, 243, 192, 231, 140, 15, 25, 233,
           146, 186, 26, 167, 212, 181, 114, 198, 222, 94, 59, 252, 0, 80, 75, 3, 4, 20, 0, 0, 0,
           8, 0, 0, 0, 33, 88, 33, 130, 202, 160, 176, 0, 0, 0, 33, 1, 0, 0, 31, 0, 0, 0, 112,
           112, 116, 47, 95, 114, 101, 108, 115, 47, 112, 114, 101, 115, 101, 110, 116, 97, 116,
           105, 111, 110, 46, 120, 109, 108, 46, 114, 101, 108, 115, 141, 207, 177, 10, 194, 48,
           16, 6, 224, 221, 167, 8, 183, 219, 180, 14, 34, 210, 180, 139, 8, 93, 165, 62, 64, 72,
           174, 109, 48, 77, 66, 46, 138, 125, 123, 131, 56, 88, 112, 112, 252, 239, 248, 191,
           227, 234, 246, 57, 91, 246, 192, 72, 198, 59, 1, 85, 81, 2, 67, 167, 188, 54, 110, 20,
           112, 237, 207, 219, 3, 48, 74, 210, 105, 105, 189, 67, 1, 11, 18, 180, 205, 166, 190,
           160, 149, 41, 119, 104, 50, 129, 88, 70, 28, 9, 152, 82, 10, 71, 206, 73, 77, 56, 75,
           42, 124, 64, 151, 55, 131, 143, 179, 76, 57, 198, 145, 7, 169, 110, 114, 68, 190, 43,
           203, 61, 143, 223, 6, 52, 43, 147, 117, 90, 64, 236, 116, 5, 172, 95, 2, 254, 99, 251,
           97, 48, 10, 79, 94, 221, 103, 116, 233, 199, 9, 78, 214, 104, 204, 160, 140, 35, 38,
           1, 239, 248, 153, 86, 69, 214, 128, 55, 53, 95, 125, 214, 188, 0, 80, 75, 3, 4, 20, 0,
           0, 0, 8, 0, 0, 0, 33, 88, 6, 240, 250, 206, 44, 1, 0, 0, 246, 2, 0, 0, 21, 0, 0, 0,
           112, 112, 116, 47, 115, 108, 105, 100, 101, 115, 47, 115, 108, 105, 100, 101, 49, 46,
           120, 109, 108, 181, 146, 207, 78, 195, 48, 12, 198, 239, 60, 69, 148, 59, 243, 54, 36,
           132, 170, 182, 147, 16, 130, 27, 154, 180, 241, 0, 89, 227, 110, 149, 154, 63, 178,
           195, 232, 222, 158, 36, 91, 1, 109, 32, 237, 194, 197, 113, 98, 127, 63, 127, 77, 90,
           46, 6, 211, 139, 61, 18, 119, 206, 86, 114, 54, 153, 74, 129, 182, 113, 186, 179, 219,
           74, 190, 173, 159, 111, 31, 164, 224, 160, 172, 86, 189, 179, 88, 201, 3, 178, 92,
           212, 55, 165, 47, 184, 215, 34, 138, 45, 23, 170, 146, 187, 16, 124, 1, 192, 205, 14,
           141, 226, 137, 243, 104, 99, 173, 117, 100, 84, 136, 91, 218, 130, 38, 245, 17, 161,
           166, 135, 249, 116, 122, 15, 70, 117, 86, 158, 244, 254, 26, 189, 39, 100, 180, 65,
           133, 104, 244, 55, 8, 93, 3, 113, 109, 219, 53, 248, 228, 154, 119, 19, 89, 71, 8, 97,
           159, 161, 188, 235, 60, 203, 58, 126, 89, 179, 234, 117, 90, 217, 175, 9, 49, 101,
           118, 255, 66, 126, 229, 151, 148, 203, 175, 251, 37, 137, 78, 199, 235, 146, 194, 42,
           19, 111, 69, 194, 169, 112, 106, 131, 163, 40, 39, 112, 38, 223, 254, 104, 97, 127,
           108, 188, 68, 207, 71, 244, 26, 135, 240, 232, 6, 49, 251, 154, 145, 154, 69, 24, 226,
           97, 114, 112, 49, 106, 100, 241, 56, 36, 181, 234, 67, 93, 170, 98, 19, 215, 124, 168,
           10, 159, 2, 165, 16, 106, 37, 54, 37, 164, 36, 69, 202, 209, 103, 216, 168, 132, 209,
           233, 223, 126, 239, 206, 253, 206, 255, 207, 175, 184, 202, 45, 124, 63, 32, 140, 111,
           10, 249, 183, 173, 63, 1, 80, 75, 1, 2, 20, 3, 20, 0, 0, 0, 8, 0, 0, 0, 33, 88, 142,
           146, 101, 2, 249, 0, 0, 0, 53, 2, 0, 0, 19, 0, 0, 0, 0, 0, 0, 0, 0, 0, 0, 0, 128, 1,
           0, 0, 0, 0, 91, 67, 111, 110, 116, 101, 110, 116, 95, 84, 121, 112, 101, 115, 93, 46,
           120, 109, 108, 80, 75, 1, 2, 20, 3, 20, 0, 0, 0, 8, 0, 0, 0, 33, 88, 114, 78, 247,
           159, 178, 0, 0, 0, 45, 1, 0, 0, 11, 0, 0, 0, 0, 0, 0, 0, 0, 0, 0, 0, 128, 1, 42, 1, 0,
           0, 95, 114, 101, 108, 115, 47, 46, 114, 101, 108, 115, 80, 75, 1, 2, 20, 3, 20, 0, 0,
           0, 8, 0, 0, 0, 33, 88, 45, 21, 221, 60, 230, 0, 0, 0, 174, 1, 0, 0, 20, 0, 0, 0, 0, 0,
           0, 0, 0, 0, 0, 0, 128, 1, 5, 2, 0, 0, 112, 112, 116, 47, 112, 114, 101, 115, 101, 110,
           116, 97, 116, 105, 111, 110, 46, 120, 109, 108, 80, 75, 1, 2, 20, 3, 20, 0, 0, 0, 8,
           0, 0, 0, 33, 88, 33, 130, 202, 160, 176, 0, 0, 0, 33, 1, 0, 0, 31, 0, 0, 0, 0, 0, 0,
           0, 0, 0, 0, 0, 128, 1, 29, 3, 0, 0, 112, 112, 116, 47, 95, 114, 101, 108, 115, 47,
           112, 114, 101, 115, 101, 110, 116, 97, 116, 105, 111, 110, 46, 120, 109, 108, 46, 114,
           101, 108, 115, 80, 75, 1, 2, 20, 3, 20, 0, 0, 0, 8, 0, 0, 0, 33, 88, 6, 240, 250, 206,
           44, 1, 0, 0, 246, 2, 0, 0, 21, 0, 0, 0, 0, 0, 0, 0, 0, 0, 0, 0, 128, 1, 10, 4, 0, 0,
           112, 112, 116, 47, 115, 108, 105, 100, 101, 115, 47, 115, 108, 105, 100, 101, 49, 46,
           120, 109, 108, 80, 75, 5, 6, 0, 0, 0, 0, 5, 0, 5, 0, 76, 1, 0, 0, 105, 5, 0, 0, 0, 0>>
    [] format \in {"doc", "ppt"} ->
         <<208, 207, 17, 224, 161, 177, 26, 225, 0, 0, 0, 0, 0, 0, 0, 0, 0, 0, 0, 0, 0, 0, 0, 0,
           62, 0, 3, 0, 254, 255, 9, 0, 6, 0, 0, 0, 0, 0, 0, 0, 0, 0, 0, 0, 1, 0, 0, 0, 0, 0, 0,
           0, 0, 0, 0, 0, 0, 16, 0, 0, 254, 255, 255, 255, 0, 0, 0, 0, 254, 255, 255, 255, 0, 0,
           0, 0, 1, 0, 0, 0, 255, 255, 255, 255, 255, 255, 255, 255, 255, 255, 255, 255, 255,
           255, 255, 255, 255, 255, 255, 255, 255, 255, 255, 255, 255, 255, 255, 255, 255, 255,
           255, 255, 255, 255, 255, 255, 255, 255, 255, 255, 255, 255, 255, 255, 255, 255, 255,
           255, 255, 255, 255, 255, 255, 255, 255, 255, 255, 255, 255, 255, 255, 255, 255, 255,
           255, 255, 255, 255, 255, 255, 255, 255, 255, 255, 255, 255, 255, 255, 255, 255, 255,
           255, 255, 255, 255, 255, 255, 255, 255, 255, 255, 255, 255, 255, 255, 255, 255, 255,
           255, 255, 255, 255, 255, 255, 255, 255, 255, 255, 255, 255, 255, 255, 255, 255, 255,
           255, 255, 255, 255, 255, 255, 255, 255, 255, 255, 255, 255, 255, 255, 255, 255, 255,
           255, 255, 255, 255, 255, 255, 255, 255, 255, 255, 255, 255, 255, 255, 255, 255, 255,
           255, 255, 255, 255, 255, 255, 255, 255, 255, 255, 255, 255, 255, 255, 255, 255, 255,
           255, 255, 255, 255, 255, 255, 255, 255, 255, 255, 255, 255, 255, 255, 255, 255, 255,
           255, 255, 255, 255, 255, 255, 255, 255, 255, 255, 255, 255, 255, 255, 255, 255, 255,
           255, 255, 255, 255, 255, 255, 255, 255, 255, 255, 255, 255, 255, 255, 255, 255, 255,
           255, 255, 255, 255, 255, 255, 255, 255, 255, 255, 255, 255, 255, 255, 255, 255, 255,
           255, 255, 255, 255, 255, 255, 255, 255, 255, 255, 255, 255, 255, 255, 255, 255, 255,
           255, 255, 255, 255, 255, 255, 255, 255, 255, 255, 255, 255, 255, 255, 255, 255, 255,
           255, 255, 255, 255, 255, 255, 255, 255, 255, 255, 255, 255, 255, 255, 255, 255, 255,
           255, 255, 255, 255, 255, 255, 255, 255, 255, 255, 255, 255, 255, 255, 255, 255, 255,
           255, 255, 255, 255, 255, 255, 255, 255, 255, 255, 255, 255, 255, 255, 255, 255, 255,
           255, 255, 255, 255, 255, 255, 255, 255, 255, 255, 255, 255, 255, 255, 255, 255, 255,
           255, 255, 255, 255, 255, 255, 255, 255, 255, 255, 255, 255, 255, 255, 255, 255, 255,
           255, 255, 255, 255, 255, 255, 255, 255, 255, 255, 255, 255, 255, 255, 255, 255, 255,
           255, 255, 255, 255, 255, 255, 255, 255, 255, 255, 255, 255, 255, 255, 255, 255, 255,
           255, 255, 255, 255, 255, 255, 255, 255, 255, 255, 255, 255, 255, 255, 255, 255, 255,
           255, 255, 255, 255, 255, 255, 255, 255, 255, 255, 255, 255, 255, 255, 255, 255, 255,
           255, 255, 255, 255, 255, 255, 255, 255, 255, 255, 255, 82, 0, 111, 0, 111, 0, 116, 0,
           32, 0, 69, 0, 110, 0, 116, 0, 114, 0, 121, 0, 0, 0, 0, 0, 0, 0, 0, 0, 0, 0, 0, 0, 0,
           0, 0, 0, 0, 0, 0, 0, 0, 0, 0, 0, 0, 0, 0, 0, 0, 0, 0, 0, 0, 0, 0, 0, 0, 0, 0, 0, 0, 0,
           0, 0, 22, 0, 5, 1, 255, 255, 255, 255, 255, 255, 255, 255, 255, 255, 255, 255, 0, 0,
           0, 0, 0, 0, 0, 0, 0, 0, 0, 0, 0, 0, 0, 0, 0, 0, 0, 0, 0, 0, 0, 0, 0, 0, 0, 0, 0, 0, 0,
           0, 0, 0, 0, 0, 254, 255, 255, 255, 0, 0, 0, 0, 0, 0, 0, 0, 0, 0, 0, 0, 0, 0, 0, 0, 0,
           0, 0, 0, 0, 0, 0, 0, 0, 0, 0, 0, 0, 0, 0, 0, 0, 0, 0, 0, 0, 0, 0, 0, 0, 0, 0, 0, 0, 0,
           0, 0, 0, 0, 0, 0, 0, 0, 0, 0, 0, 0, 0, 0, 0, 0, 0, 0, 0, 0, 0, 0, 0, 0, 0, 0, 0, 0, 0,
           0, 255, 255, 255, 255, 255, 255, 255, 255, 255, 255, 255, 255, 0, 0, 0, 0, 0, 0, 0, 0,
           0, 0, 0, 0, 0, 0, 0, 0, 0, 0, 0, 0, 0, 0, 0, 0, 0, 0, 0, 0, 0, 0, 0, 0, 0, 0, 0, 0, 0,
           0, 0, 0, 0, 0, 0, 0, 0, 0, 0, 0, 0, 0, 0, 0, 0, 0, 0, 0, 0, 0, 0, 0, 0, 0, 0, 0, 0, 0,
           0, 0, 0, 0, 0, 0, 0, 0, 0, 0, 0, 0, 0, 0, 0, 0, 0, 0, 0, 0, 0, 0, 0, 0, 0, 0, 0, 0, 0,
           0, 0, 0, 0, 0, 0, 0, 0, 0, 0, 0, 0, 0, 0, 0, 0, 0, 0, 0, 0, 0, 255, 255, 255, 255,
           255, 255, 255, 255, 255, 255, 255, 255, 0, 0, 0, 0, 0, 0, 0, 0, 0, 0, 0, 0, 0, 0, 0,
           0, 0, 0, 0, 0, 0, 0, 0, 0, 0, 0, 0, 0, 0, 0, 0, 0, 0, 0, 0, 0, 0, 0, 0, 0, 0, 0, 0, 0,
           0, 0, 0, 0, 0, 0, 0, 0, 0, 0, 0, 0, 0, 0, 0, 0, 0, 0, 0, 0, 0, 0, 0, 0, 0, 0, 0, 0, 0,
           0, 0, 0, 0, 0, 0, 0, 0, 0, 0, 0, 0, 0, 0, 0, 0, 0, 0, 0, 0, 0, 0, 0, 0, 0, 0, 0, 0, 0,
           0, 0, 0, 0, 0, 0, 0, 0, 0, 0, 0, 0, 0, 0, 255, 255, 255, 255, 255, 255, 255, 255, 255,
           255, 255, 255, 0, 0, 0, 0, 0, 0, 0, 0, 0, 0, 0, 0, 0, 0, 0, 0, 0, 0, 0, 0, 0, 0, 0, 0,
           0, 0, 0, 0, 0, 0, 0, 0, 0, 0, 0, 0, 0, 0, 0, 0, 0, 0, 0, 0, 0, 0, 0, 0, 254, 255, 255,
           255, 253, 255, 255, 255, 255, 255, 255, 255, 255, 255, 255, 255, 255, 255, 255, 255,
           255, 255, 255, 255, 255, 255, 255, 255, 255, 255, 255, 255, 255, 255, 255, 255, 255,
           255, 255, 255, 255, 255, 255, 255, 255, 255, 255, 255, 255, 255, 255, 255, 255, 255,
           255, 255, 255, 255, 255, 255, 255, 255, 255, 255, 255, 255, 255, 255, 255, 255, 255,
           255, 255, 255, 255, 255, 255, 255, 255, 255, 255, 255, 255, 255, 255, 255, 255, 255,
           255, 255, 255, 255, 255, 255, 255, 255, 255, 255, 255, 255, 255, 255, 255, 255, 255,
           255, 255, 255, 255, 255, 255, 255, 255, 255, 255, 255, 255, 255, 255, 255, 255, 255,
           255, 255, 255, 255, 255, 255, 255, 255, 255, 255, 255, 255, 255, 255, 255, 255, 255,
           255, 255, 255, 255, 255, 255, 255, 255, 255, 255, 255, 255, 255, 255, 255, 255, 255,
           255, 255, 255, 255, 255, 255, 255, 255, 255, 255, 255, 255, 255, 255, 255, 255, 255,
           255, 255, 255, 255, 255, 255, 255, 255, 255, 255, 255, 255, 255, 255, 255, 255, 255,
           255, 255, 255, 255, 255, 255, 255, 255, 255, 255, 255, 255, 255, 255, 255, 255, 255,
           255, 255, 255, 255, 255, 255, 255, 255, 255, 255, 255, 255, 255, 255, 255, 255, 255,
           255, 255, 255, 255, 255, 255, 255, 255, 255, 255, 255, 255, 255, 255, 255, 255, 255,
           255, 255, 255, 255, 255, 255, 255, 255, 255, 255, 255, 255, 255, 255, 255, 255, 255,
           255, 255, 255, 255, 255, 255, 255, 255, 255, 255, 255, 255, 255, 255, 255, 255, 255,
           255, 255, 255, 255, 255, 255, 255, 255, 255, 255, 255, 255, 255, 255, 255, 255, 255,
           255, 255, 255, 255, 255, 255, 255, 255, 255, 255, 255, 255, 255, 255, 255, 255, 255,
           255, 255, 255, 255, 255, 255, 255, 255, 255, 255, 255, 255, 255, 255, 255, 255, 255,
           255, 255, 255, 255, 255, 255, 255, 255, 255, 255, 255, 255, 255, 255, 255, 255, 255,
           255, 255, 255, 255, 255, 255, 255, 255, 255, 255, 255, 255, 255, 255, 255, 255, 255,
           255, 255, 255, 255, 255, 255, 255, 255, 255, 255, 255, 255, 255, 255, 255, 255, 255,
           255, 255, 255, 255, 255, 255, 255, 255, 255, 255, 255, 255, 255, 255, 255, 255, 255,
           255, 255, 255, 255, 255, 255, 255, 255, 255, 255, 255, 255, 255, 255, 255, 255, 255,
           255, 255, 255, 255, 255, 255, 255, 255, 255, 255, 255, 255, 255, 255, 255, 255, 255,
           255, 255, 255, 255, 255, 255, 255, 255, 255, 255, 255, 255, 255, 255, 255, 255, 255,
           255, 255, 255, 255, 255, 255, 255, 255, 255, 255, 255, 255, 255, 255, 255, 255, 255,
           255, 255, 255, 255, 255, 255, 255, 255, 255, 255, 255, 255, 255, 255, 255, 255, 255,
           255, 255, 255, 255, 255, 255, 255, 255, 255, 255, 255, 255, 255, 255, 255, 255, 255,
           255, 255, 255, 255, 255, 255, 255, 255, 255, 255, 255, 255, 255, 255, 255, 255>>
    [] format = "empty" -> <<>>
    [] OTHER -> [i \in 1..Len(text) |-> Ord(text[i])]

File(format, text) ==
  [format |-> format, text |-> text, bytes |-> FileBytes(format, text)]

\* the Word and PowerPoint files of the last line but one have a second
\* paragraph (shape) that is blank
Documents ==
  {File(f, t) : f \in {"pdf", "docx", "pptx", "txt"}, t \in DocTexts}
    \cup {File(f, <<"a", " ", "b", "\n", " ">>) : f \in {"docx", "pptx"}}
    \cup {File(f, <<>>) : f \in {"doc", "ppt", "empty"}}
Extensions == {".pdf", ".PDF", ".docx", ".doc", ".pptx", ".ppt", ".txt", ".xlsx"}

\* file_extension.lower()
ext_lower(ext) == IF ext = ".PDF" THEN ".pdf" ELSE ext

\* the file_type_name table of the upload handler
file_type_name(ext) ==
  CASE ext_lower(ext) = ".pdf" -> "PDF"
    [] ext_lower(ext) = ".docx" -> "Word Document"
    [] ext_lower(ext) = ".doc" -> "Word Document (Legacy)"
    [] ext_lower(ext) = ".pptx" -> "PowerPoint Presentation"
    [] ext_lower(ext) = ".ppt" -> "PowerPoint Presentation (Legacy)"
    [] ext_lower(ext) = ".txt" -> "Text File"
    [] OTHER -> "Document"

Extracted(text) == [ok |-> TRUE, text |-> text, error |-> None]
ExtractError(msg) == [ok |-> FALSE, text |-> <<>>, error |-> msg]

\* what DocxDocument(file_path) raises on a file that is not a Word package
docx_open_error(format) ==
  IF format = "pptx" THEN "file is not a Word file" ELSE "Package not found"

\* what Presentation(file_path) raises on a file that is not a PowerPoint package
pptx_open_error(format) ==
  IF format = "docx" THEN "file is not a PowerPoint file" ELSE "Package not found"

\* the except clause of the PowerPoint branch
pptx_except(ext, error_msg) ==
  IF error_msg = "Package not found"
  THEN ExtractError("Invalid PowerPoint file. The file may be corrupted, incomplete, or not actually a PowerPoint file. If downloading from SharePoint, ensure you have a direct download link. Error: " \o error_msg)
  ELSE IF ext = ".ppt"
  THEN ExtractError("Error reading PowerPoint file. Legacy .ppt format is not fully supported. Please convert to .pptx format. Error: " \o error_msg)
  ELSE ExtractError("Error reading PowerPoint file: " \o error_msg)

\* doc.paragraphs of a Word file (the shapes of the slides of a PowerPoint
\* file): one paragraph per line of the file's text
RECURSIVE paragraphs(_)
paragraphs(text) ==
  IF \A i \in 1..Len(text) : text[i] # "\n" THEN <<text>>
  ELSE LET k == CHOOSE i \in 1..Len(text) :
                  text[i] = "\n" /\ \A j \in 1..(i - 1) : text[j] # "\n"
       IN <<SubSeq(text, 1, k - 1)>> \o paragraphs(SubSeq(text, k + 1, Len(text)))

\* "\n".join(parts)
RECURSIVE join_lines(_)
join_lines(parts) ==
  IF parts = <<>> THEN <<>>
  ELSE IF Len(parts) = 1 THEN parts[1]
  ELSE parts[1] \o <<"\n">> \o join_lines(Tail(parts))

\* the paragraphs of doc.paragraphs (the shapes of the slides) kept by
\* `if paragraph.text.strip()` (`if shape.text.strip()`)
RECURSIVE nonblank_parts(_)
nonblank_parts(parts) ==
  IF parts = <<>> THEN <<>>
  ELSE (IF is_blank(Head(parts)) THEN <<>> ELSE <<Head(parts)>>)
         \o nonblank_parts(Tail(parts))

\* os.path.getsize(file_path) == 0
zero_size(file) == Len(file.bytes) = 0

\* open(file_path, 'r', encoding='utf-8', errors='ignore').read(): the bytes
\* of the file, whatever its format, decoded; in text mode every "\r\n" and
\* every other "\r" is read as "\n"
raw_text(file) ==
  LET s == decode_utf8_ignore(file.bytes)
      newline(i) ==
        IF s[i] = "\r" THEN "\n"
        ELSE IF s[i] = "\n" /\ i > 1 /\ s[i - 1] = "\r" THEN ""
        ELSE s[i]
  IN SelectSeq([i \in 1..Len(s) |-> newline(i)], LAMBDA ch : ch # "")

\* extract_text_from_file(file_path, file_extension)
extract_text_from_file(file, file_extension) ==
  LET ext == ext_lower(file_extension) IN
  CASE ext = ".pdf" ->
         IF file.format = "pdf" THEN Extracted(file.text)
         ELSE ExtractError("PdfReadError")
    [] ext \in {".docx", ".doc"} ->
         IF file.format = "docx"
         THEN Extracted(join_lines(nonblank_parts(paragraphs(file.text))))
         ELSE ExtractError("Error reading Word document. For .doc files, please convert to .docx format. Error: "
                             \o docx_open_error(file.format))
    [] ext \in {".pptx", ".ppt"} ->
         IF zero_size(file)
         THEN pptx_except(ext, "PowerPoint file is empty or corrupted")
         ELSE IF file.format = "pptx"
         THEN Extracted(join_lines(nonblank_parts(paragraphs(file.text))))
         ELSE pptx_except(ext, pptx_open_error(file.format))
    [] ext = ".txt" -> Extracted(raw_text(file))
    [] OTHER -> ExtractError("Unsupported file format: " \o ext)

\* ------------------------------------------------------------------------
\* Staging a document in a temporary file
\* ------------------------------------------------------------------------
\* What a staging step leaves: the files on disk, the temp_path the handler
\* holds, the exception it raised, and whether st.stop() ended the script.
Staged(files, path, err, stop) ==
  [disk |-> files, temp_path |-> path, raised |-> err, stopped |-> stop]

DownloadOutcomes ==
  {"request_failed", "auth_failed", "no_extension", "stream_failed", "empty",
   "html", "bad_pptx", "ok"}

\* download_file_from_url(url): `name` is the NamedTemporaryFile it creates
download_file_from_url(dl, files, name) ==
  CASE dl = "request_failed" ->
         Staged(files, None, "Failed to download file from URL", FALSE)
    [] dl = "auth_failed" ->
         Staged(files, None, "Error processing URL: Authentication failed. SharePoint may require OAuth2 authentication. Please try getting a shareable link or download the file manually.", FALSE)
    [] dl = "no_extension" ->
         Staged(files, None, "Error processing URL: Could not determine file type from URL", FALSE)
    [] dl = "stream_failed" ->
         Staged(files \cup {name}, None, "Failed to download file from URL", FALSE)
    [] dl = "empty" ->
         Staged((files \cup {name}) \ {name}, None, "Error processing URL: Downloaded file is empty", FALSE)
    [] dl = "html" ->
         Staged((files \cup {name}) \ {name}, None, "Error processing URL: Downloaded content appears to be a web page", FALSE)
    [] dl = "bad_pptx" ->
         Staged((files \cup {name}) \ {name}, None, "Error processing URL: Downloaded file does not appear to be a valid PowerPoint file", FALSE)
    [] OTHER -> Staged(files \cup {name}, name, None, FALSE)

OAuthOutcomes ==
  {"unauthorized", "request_failed", "stream_unauthorized", "stream_failed", "ok"}

\* the SharePoint SSO branch of the upload handler
stage_oauth(o, files, name) ==
  CASE o = "unauthorized" -> Staged(files, None, None, TRUE)
    [] o = "request_failed" -> Staged(files, None, "SharePoint download failed", FALSE)
    [] o = "stream_unauthorized" -> Staged(files \cup {name}, None, None, TRUE)
    [] o = "stream_failed" -> Staged(files \cup {name}, None, "SharePoint download failed", FALSE)
    [] OTHER -> Staged(files \cup {name}, name, None, FALSE)

\* the "Upload from Computer" branch of the upload handler
stage_upload(files, name) == Staged(files \cup {name}, name, None, FALSE)

FileSources == {"upload", "url", "oauth"}

stage(file_source, outcome, files, name) ==
  CASE file_source = "url" -> download_file_from_url(outcome, files, name)
    [] file_source = "oauth" -> stage_oauth(outcome, files, name)
    [] OTHER -> stage_upload(files, name)

StageOutcomes(file_source) ==
  CASE file_source = "url" -> DownloadOutcomes
    [] file_source = "oauth" -> OAuthOutcomes
    [] OTHER -> {"ok"}

\* the name tempfile.NamedTemporaryFile gives the file of handler run n: a
\* name no other file has
TempName(n) == "tmp" \o ToString(n)

\* the except clause of the upload handler: os.unlink(temp_path) if set
handler_cleanup(files, temp_path) ==
  IF temp_path # None THEN files \ {temp_path} ELSE files

\* ------------------------------------------------------------------------
\* generate_llm_answer(query, context)
\* ------------------------------------------------------------------------
\* One call of the hosted LLM: the request either fails (create_error) or
\* returns a stream of events; an event carries a delta content (possibly
\* None) or is the failure that interrupts the stream.
Delta(content) == [content |-> content, error |-> None]
Broken(e) == [content |-> None, error |-> e]
Deltas == {Delta("Hello"), Delta(None)}

RECURSIVE SeqsUpTo(_, _)
SeqsUpTo(S, n) ==
  IF n = 0 THEN {<<>>}
  ELSE SeqsUpTo(S, n - 1)
         \cup {Append(q, x) : q \in {t \in SeqsUpTo(S, n - 1) : Len(t) = n - 1}, x \in S}

\* the request fails; or the stream delivers up to MaxFragments deltas and
\* then completes, or breaks after them
LLMBehaviours ==
  {[create_error |-> "rate limit exceeded", stream |-> <<>>]}
    \cup {[create_error |-> None, stream |-> q] :
            q \in SeqsUpTo(Deltas, MaxFragments)}
    \cup {[create_error |-> None, stream |-> Append(q, Broken("stream reset"))] :
            q \in SeqsUpTo(Deltas, MaxFragments)}

Returned(v) == [value |-> v, raised |-> None]
Raised(e) == [value |-> None, raised |-> e]

\* `chunk.choices[0].delta.content or ""`
content_or_empty(content) == IF content = None THEN "" ELSE content

\* faulty variant: the failure is not caught and leaves generate_llm_answer
llm_except_reraise(e, answer) == Raised(e)

\* the except clause of generate_llm_answer
llm_except(e, answer) == Returned("Error generating answer: " \o e)

\* the `for chunk in stream` loop, inside the try
RECURSIVE consume_stream(_, _)
consume_stream(stream, answer) ==
  IF stream = <<>> THEN Returned(answer)
  ELSE IF Head(stream).error # None THEN llm_except(Head(stream).error, answer)
  ELSE consume_stream(Tail(stream),
                      answer \o content_or_empty(Head(stream).content))

generate_llm_answer(query, context, llm) ==
  IF llm.create_error # None THEN llm_except(llm.create_error, "")
  ELSE consume_stream(llm.stream, "")

\* ------------------------------------------------------------------------
\* The surroundings of the callers
\* ------------------------------------------------------------------------
\* the questions a user types
Queries == {<<" ">>, <<"q">>}

\* everything a user can upload and every way the surroundings can fail
FullEnv ==
  [buttons |-> {"upload", "search", "delete"},
   client_errors |-> {"no route to host"},
   groq_errors |-> {"api_key must be set"},
   stagings |-> {<<fs, oc>> : fs \in FileSources, oc \in DownloadOutcomes \cup OAuthOutcomes}
                  \cap UNION {{<<fs, oc>> : oc \in StageOutcomes(fs)} : fs \in FileSources},
   \* the files that are read as .txt files are the text files
   uploads |-> {up \in Documents \X Extensions :
                 up[2] = ".txt" => up[1].format \in {"txt", "empty"}},
   encode_errors |-> {"CUDA error"},
   queries |-> Queries,
   llms |-> LLMBehaviours,
   pdfs |-> Documents,
   upsert_faults |-> UpsertFaults,
   load_errors |-> {E_ModelLoad, E_Handshake}]

\* two callers with a good document each: only the store can fail
RaceEnv ==
  [buttons |-> {"upload", "search", "delete"},
   client_errors |-> {},
   groq_errors |-> {},
   stagings |-> {<<"upload", "ok">>},
   uploads |-> {<<File("pdf", <<"a", " ", "b">>), ".pdf">>},
   encode_errors |-> {},
   queries |-> {<<"q">>},
   llms |-> {[create_error |-> None, stream |-> <<Delta("Hello")>>]},
   pdfs |-> {File("pdf", <<"a", " ", "b">>)},
   upsert_faults |-> UpsertFaults,
   load_errors |-> {}]

\* ingestions of good documents of one and of two chunks by ingest.py, and of
\* a PDF by the upload handler: read as a .pdf file its text makes one chunk,
\* read as a .txt file its decoded bytes make two; the reply to an upsert can be
\* lost
BatchEnv ==
  [buttons |-> {"upload"},
   client_errors |-> {},
   groq_errors |-> {},
   stagings |-> {<<"upload", "ok">>},
   uploads |-> {<<File("pdf", <<"a", " ", "b">>), ext>> : ext \in {".pdf", ".txt"}},
   encode_errors |-> {},
   queries |-> {<<"q">>},
   llms |-> {[create_error |-> None, stream |-> <<Delta("Hello")>>]},
   pdfs |-> {File("pdf", <<"a", " ", "b">>), File("pdf", LongText)},
   upsert_faults |-> LostReplies,
   load_errors |-> {}]

\* only searches: ensure_collection_exists is called by each of them
EnsureEnv == [FullEnv EXCEPT !.buttons = {"search"}]

\* the surroundings a specification runs in, by name
Env(name) ==
  CASE name = "full" -> FullEnv
    [] name = "race" -> RaceEnv
    [] name = "batch" -> BatchEnv
    [] OTHER -> EnsureEnv

\* ------------------------------------------------------------------------
\* State
\* ------------------------------------------------------------------------
VARIABLES
  collection,     \* the store's collection: NoCollection or its configuration
  points,         \* the store's points: id -> payload
  disk,           \* the temporary files that exist
  quota,          \* handler runs each caller may still start
  runs,           \* handler runs started so far
  session_state,  \* st.session_state of each caller
  pc,             \* the store call each caller is about to make
  loc,            \* the locals of each caller's running handler
  obs,            \* what each caller's current run did and showed
  fault_budget,   \* transport faults the store may still answer with (-1: any number)
  env,            \* the name of the surroundings the callers run in
  chunker,        \* a text, a chunk size and an overlap, and the chunks made of them
  embedder,       \* the embedding model of one process and the threads loading it
  loops,          \* the two chunkers run on one text, iteration by iteration
  wrapper         \* one call of a function wrapped by retry_qdrant_operation

vars == <<collection, points, disk, quota, runs, session_state, pc, loc, obs,
          fault_budget, env, chunker, embedder, loops, wrapper>>

NoStore == [collection |-> NoCollection, points |-> [i \in {} |-> <<>>]]
NoLLM == [create_error |-> None, stream |-> <<>>]

FreshLoc ==
  [handler |-> "none", run |-> 0, silent |-> FALSE, temp_path |-> None,
   file_type_name |-> None, chunks |-> <<>>, points |-> <<>>,
   attempt |-> 0, last_error |-> None, upsert_success |-> FALSE]

FreshObs ==
  [temp_name |-> None,     \* the temporary file this run creates, if any
   messages |-> <<>>,      \* st.error / st.warning / st.success / answer shown
   raised |-> None,        \* exception that left the handler
   check_log |-> <<>>,     \* answers to get_collection / collection_exists
   ensure_log |-> <<>>,    \* answers to ensure_collection_exists' create
   vector_log |-> <<>>,    \* outcomes of its get_vector_size()
   ensure_ret |-> <<>>,    \* values ensure_collection_exists returned
   ensure_raised |-> None, \* exception ensure_collection_exists raised
   upsert_log |-> <<>>,    \* answers to the upsert calls
   create_log |-> <<>>,    \* answers to the on-the-fly create calls
   sent |-> <<>>,          \* the points list each upsert call carried
   applied |-> <<>>,       \* whether the store applied each upsert call
   sleeps |-> <<>>,        \* time.sleep delays, in seconds
   query_log |-> <<>>,     \* answers to query_points
   llm_calls |-> 0,        \* calls of generate_llm_answer
   llm |-> NoLLM,          \* how the LLM behaved in that call
   context |-> <<>>,       \* the context passed to it
   hits |-> <<>>,          \* the points query_points returned
   file_extension |-> None,   \* file_extension.lower() of the document
   extracted |-> FALSE,    \* the extractor returned a text
   full_text |-> <<>>,     \* the text it returned
   store_before |-> NoStore,  \* the store when the run started
   done |-> FALSE]

Msg(kind, text) == <<kind, text>>

\* the process holds the model in the cache of st.cache_resource: load_model
\* ran in one of its sessions
model_cached(ss) == \E d \in Callers : ss[d].embed_model # None

\* load_model() returned the model to session c: its body ran, and set
\* st.session_state.embed_model, unless st.cache_resource held the model
with_model(ss, c) ==
  IF model_cached(ss) THEN ss
  ELSE [ss EXCEPT ![c].embed_model = "model"]

\* the outcomes of load_model(): constructing the model can fail as long as
\* the process has not loaded it
load_answers(ss) ==
  {"ok"} \cup (IF model_cached(ss) THEN {} ELSE Env(env).load_errors)

\* the outcomes of model.encode(text)
encode_answers == {"ok"} \cup Env(env).encode_errors

\* init_clients(): session_state after it, whether the script goes on, and
\* the st.error it shows
init_clients(ss, client, groq) ==
  IF ss.qdrant = None /\ client # "ok"
  THEN [ss |-> ss, ret |-> FALSE,
        messages |-> <<Msg("error", "Failed to connect to Qdrant: " \o client)>>]
  ELSE LET s1 == IF ss.qdrant = None THEN [ss EXCEPT !.qdrant = "client"] ELSE ss
       IN IF s1.groq_client # None
          THEN [ss |-> s1, ret |-> TRUE, messages |-> <<>>]
          ELSE IF groq # "ok"
          THEN [ss |-> s1, ret |-> FALSE,
                messages |-> <<Msg("error", "Failed to initialize Groq client: " \o groq)>>]
          ELSE [ss |-> [s1 EXCEPT !.groq_client = "groq"], ret |-> TRUE,
                messages |-> <<>>]

StoreNow == [collection |-> collection, points |-> points]

\* ------------------------------------------------------------------------
\* Upload & Ingest handler: staging, extraction, chunking, embedding
\* ------------------------------------------------------------------------
\* the points list built from the chunks, one random id per chunk
build_points(chunks, ids) ==
  [i \in 1..Len(chunks) |->
     [id |-> ids[i], vector |-> embed(chunks[i]), payload |-> [text |-> chunks[i]]]]

Prepared(files, msgs, err, go, chunks, loaded) ==
  [disk |-> files, messages |-> msgs, raised |-> err, go |-> go,
   chunks |-> chunks, loaded |-> loaded]

\* the except clause of the upload handler
upload_except(files, temp_path, e, loaded) ==
  Prepared(handler_cleanup(files, temp_path),
           <<Msg("error", "Error processing document: " \o e)>>, e, FALSE, <<>>,
           loaded)

\* the handler from extract_text_from_file to the end of the embedding loop:
\* embed(chunk) loads the model for the first chunk (outcome load) and
\* encodes every chunk (outcome enc: "ok", or the failure of one of them)
upload_prepare(file, ext, load, enc, files, temp_path) ==
  LET x == extract_text_from_file(file, ext) IN
  IF ~x.ok THEN upload_except(files, temp_path, x.error, FALSE)
  ELSE IF is_blank(x.text)
  THEN Prepared(files,
                <<Msg("error", "No text could be extracted from the "
                                 \o file_type_name(ext) \o ".")>>,
                None, FALSE, <<>>, FALSE)
  ELSE IF load # "ok" THEN upload_except(files, temp_path, load, FALSE)
  ELSE IF enc # "ok" THEN upload_except(files, temp_path, enc, TRUE)
  ELSE Prepared(files, <<>>, None, TRUE, chunk_loop(x.text, 0, chunk_size, overlap),
                TRUE)

\* the handler from its try to the staged temporary file
UploadStage(c) ==
  /\ pc[c] = "stage"
  /\ \E sg \in Env(env).stagings :
         LET name == TempName(loc[c].run)
             st == stage(sg[1], sg[2], disk, name)
             o == [obs[c] EXCEPT !.temp_name = name]
         IN
         IF st.stopped
         THEN /\ disk' = st.disk
              /\ obs' = [obs EXCEPT ![c] =
                   [o EXCEPT !.messages = <<Msg("error", "Authentication expired or insufficient permissions. Please re-authenticate with SSO.")>>,
                             !.done = TRUE]]
              /\ pc' = [pc EXCEPT ![c] = "idle"]
              /\ UNCHANGED loc
         ELSE IF st.raised # None
         THEN /\ disk' = handler_cleanup(st.disk, st.temp_path)
              /\ obs' = [obs EXCEPT ![c] =
                   [o EXCEPT !.raised = st.raised,
                             !.messages = <<Msg("error", "Error processing document: " \o st.raised)>>,
                             !.done = TRUE]]
              /\ pc' = [pc EXCEPT ![c] = "idle"]
              /\ UNCHANGED loc
         ELSE /\ disk' = st.disk
              /\ obs' = [obs EXCEPT ![c] = o]
              /\ loc' = [loc EXCEPT ![c].temp_path = st.temp_path]
              /\ pc' = [pc EXCEPT ![c] = "extract"]
  /\ UNCHANGED <<collection, points, quota, runs, session_state, fault_budget>>

UploadExtract(c) ==
  /\ pc[c] = "extract"
  /\ \E up \in Env(env).uploads, load \in load_answers(session_state),
        enc \in encode_answers :
       LET file == up[1]
           ext == up[2]
           x == extract_text_from_file(file, ext)
           p == upload_prepare(file, ext, load, enc, disk, loc[c].temp_path)
           o == [obs[c] EXCEPT !.file_extension = ext_lower(ext),
                            !.extracted = x.ok,
                            !.full_text = x.text]
       IN
       /\ disk' = p.disk
       /\ session_state' = IF p.loaded THEN with_model(session_state, c)
                           ELSE session_state
       /\ IF p.go
          THEN \E ids \in [1..Len(p.chunks) -> 0..(IdSpace - 1)] :
                 /\ loc' = [loc EXCEPT ![c] =
                      [@ EXCEPT !.file_type_name = file_type_name(ext),
                                !.chunks = p.chunks,
                                !.points = build_points(p.chunks, ids)]]
                 /\ obs' = [obs EXCEPT ![c] = o]
                 /\ pc' = [pc EXCEPT ![c] = "ensure_check"]
          ELSE /\ obs' = [obs EXCEPT ![c] =
                    [o EXCEPT !.messages = p.messages,
                              !.raised = p.raised,
                              !.done = TRUE]]
               /\ pc' = [pc EXCEPT ![c] = "idle"]
               /\ UNCHANGED loc
  /\ UNCHANGED <<collection, points, quota, runs, fault_budget>>

\* ------------------------------------------------------------------------
\* ensure_collection_exists(silent)
\* ------------------------------------------------------------------------
\* faulty variant: a failed get_collection always leads to create_collection
ensure_after_check_no_assume(r) == IF r = "ok" THEN "return" ELSE "create"

\* what follows the get_collection call: return True, or go on to create
ensure_after_check(r) ==
  IF r = "ok" THEN "return"
  ELSE IF classify(r).is_timeout THEN "return"
  ELSE "create"

\* how a call of ensure_collection_exists ends: the value it returns or the
\* exception it raises, and the st.error messages it shows
EnsureResult(ret, err, msgs) == [ret |-> ret, raised |-> err, messages |-> msgs]

\* faulty variant: the error is shown in silent mode too
ensure_after_create_loud(r, silent) ==
  IF r = "ok" THEN EnsureResult(TRUE, None, <<>>)
  ELSE IF classify(r).ensure_already_exists THEN EnsureResult(TRUE, None, <<>>)
  ELSE IF classify(r).is_timeout THEN EnsureResult(TRUE, None, <<>>)
  ELSE EnsureResult(TRUE, None,
                    <<Msg("error", "Error ensuring collection exists: " \o r)>>)

\* the handling of the outcome r of the creation's try: the answer of
\* create_collection, or the failure of get_vector_size() before it
ensure_after_create(r, silent) ==
  IF r = "ok" THEN EnsureResult(TRUE, None, <<>>)
  ELSE IF classify(r).ensure_already_exists THEN EnsureResult(TRUE, None, <<>>)
  ELSE IF classify(r).is_timeout THEN EnsureResult(TRUE, None, <<>>)
  ELSE IF ~silent
  THEN EnsureResult(TRUE, None,
                    <<Msg("error", "Error ensuring collection exists: " \o r)>>)
  ELSE EnsureResult(TRUE, None, <<>>)

\* the handler leaves through its except clause with exception e
UploadRaise(c, e, o) ==
  /\ disk' = handler_cleanup(disk, loc[c].temp_path)
  /\ obs' = [obs EXCEPT ![c] =
       [o EXCEPT !.raised = e,
                 !.messages = Append(@, Msg("error", "Error processing document: " \o e)),
                 !.done = TRUE]]
  /\ pc' = [pc EXCEPT ![c] = "idle"]

\* the except clause of the search handler
SearchRaise(c, e, o) ==
  /\ obs' = [obs EXCEPT ![c] =
       [o EXCEPT !.raised = e,
                 !.messages = Append(@, Msg("error", "Error during search: " \o e)),
                 !.done = TRUE]]
  /\ pc' = [pc EXCEPT ![c] = "idle"]

\* where the handler goes on once ensure_collection_exists has ended
AfterEnsure(c, res, o) ==
  LET o1 == [o EXCEPT !.ensure_ret = Append(@, res.ret),
                      !.ensure_raised = res.raised,
                      !.messages = @ \o res.messages]
  IN
  IF loc[c].handler = "search"
  THEN /\ UNCHANGED disk
       /\ IF res.raised # None
          THEN SearchRaise(c, res.raised, o1)
          ELSE IF ~res.ret
          THEN /\ obs' = [obs EXCEPT ![c] =
                    [o1 EXCEPT
                       !.messages = Append(@, Msg("warning", "Collection doesn't exist. Please upload a document first.")),
                       !.done = TRUE]]
               /\ pc' = [pc EXCEPT ![c] = "idle"]
          ELSE /\ obs' = [obs EXCEPT ![c] = o1]
               /\ pc' = [pc EXCEPT ![c] = "embed"]
  ELSE IF res.raised # None
  THEN UploadRaise(c, res.raised, o1)
  ELSE /\ obs' = [obs EXCEPT ![c] = o1]
       /\ pc' = [pc EXCEPT ![c] = "upsert"]
       /\ UNCHANGED disk

\* ensure_collection_exists up to the answer of get_collection
EnsureCheck(c) ==
  /\ pc[c] = "ensure_check"
  /\ IF session_state[c].qdrant = None
     THEN /\ AfterEnsure(c, EnsureResult(FALSE, None, <<>>), obs[c])
          /\ UNCHANGED fault_budget
     ELSE \E r \in Allowed(get_collection_answers(collection), fault_budget) :
            LET o == [obs[c] EXCEPT !.check_log = Append(@, r)] IN
            /\ fault_budget' = spend(fault_budget, r)
            /\ IF ensure_after_check(r) = "return"
               THEN AfterEnsure(c, EnsureResult(TRUE, None, <<>>), o)
               ELSE /\ obs' = [obs EXCEPT ![c] = o]
                    /\ pc' = [pc EXCEPT ![c] = "ensure_size"]
                    /\ UNCHANGED disk
  /\ UNCHANGED <<collection, points, quota, runs, loc, session_state>>

\* the try of the creation, first statement: get_vector_size(), which fails
\* when its load_model() fails
EnsureVectorSize(c) ==
  /\ pc[c] = "ensure_size"
  /\ \E v \in load_answers(session_state) :
       LET ov == [obs[c] EXCEPT !.vector_log = Append(@, v)] IN
       IF v # "ok"
       THEN /\ AfterEnsure(c, ensure_after_create(v, loc[c].silent), ov)
            /\ UNCHANGED session_state
       ELSE /\ session_state' = with_model(session_state, c)
            /\ obs' = [obs EXCEPT ![c] = ov]
            /\ pc' = [pc EXCEPT ![c] = "ensure_create"]
            /\ UNCHANGED disk
  /\ UNCHANGED <<collection, points, quota, runs, loc, fault_budget>>

\* the try of the creation, second statement: create_collection
EnsureCreate(c) ==
  /\ pc[c] = "ensure_create"
  /\ \E r \in Allowed(create_collection_answers(collection), fault_budget) :
       LET o == [obs[c] EXCEPT !.ensure_log = Append(@, r)] IN
       /\ fault_budget' = spend(fault_budget, r)
       /\ collection' = IF r = "ok" THEN created_collection(get_vector_size)
                        ELSE collection
       /\ AfterEnsure(c, ensure_after_create(r, loc[c].silent), o)
  /\ UNCHANGED <<points, quota, runs, loc, session_state>>

\* ------------------------------------------------------------------------
\* Upload & Ingest handler: the upsert retry loop
\* ------------------------------------------------------------------------
\* faulty variant: the delay does not grow with the attempt number
backoff_constant(attempt) == 2

\* the delay of time.sleep(2 * (attempt + 1))
backoff(attempt) == 2 * (attempt + 1)

Continue(delays) == [act |-> "continue", sleeps |-> delays]
Raise == [act |-> "raise", sleeps |-> <<>>]

\* faulty variant: every failure is raised at once, nothing is retried
loop_tail_no_retry(attempt, timeout) == Raise

\* the end of the except clause: backoff and retry on a timeout, raise on
\* the last attempt, otherwise fall off the loop body into the next attempt
loop_tail(attempt, timeout) ==
  IF timeout /\ attempt < max_retries - 1 THEN Continue(<<backoff(attempt)>>)
  ELSE IF attempt = max_retries - 1 THEN Raise
  ELSE Continue(<<>>)

\* faulty variant: a timeout of the creation backs off on the last attempt too
otf_create_result_always_sleeps(attempt, r, timeout) ==
  IF r = "ok" THEN Continue(<<>>)
  ELSE IF classify(r).otf_already_exists THEN Continue(<<>>)
  ELSE IF classify(r).otf_create_timeout THEN Continue(<<backoff(attempt)>>)
  ELSE loop_tail(attempt, timeout)

\* the is_not_found branch, after create_collection answered r
otf_create_result(attempt, r, timeout) ==
  IF r = "ok" THEN Continue(<<>>)
  ELSE IF classify(r).otf_already_exists THEN Continue(<<>>)
  ELSE IF classify(r).otf_create_timeout /\ attempt < max_retries - 1
  THEN Continue(<<backoff(attempt)>>)
  ELSE loop_tail(attempt, timeout)

\* carry out a decision of the loop for the caller with locals l
ApplyLoop(c, d, o, l) ==
  IF d.act = "raise"
  THEN /\ UploadRaise(c, l.last_error, o)
       /\ loc' = [loc EXCEPT ![c] = l]
  ELSE LET o1 == [o EXCEPT !.sleeps = @ \o d.sleeps] IN
       IF l.attempt + 1 < max_retries
       THEN /\ loc' = [loc EXCEPT ![c] = [l EXCEPT !.attempt = @ + 1]]
            /\ obs' = [obs EXCEPT ![c] = o1]
            /\ pc' = [pc EXCEPT ![c] = "upsert"]
            /\ UNCHANGED disk
       ELSE /\ UploadRaise(c, l.last_error, o1)
            /\ loc' = [loc EXCEPT ![c] = l]

\* faulty variant: a retry resends only the points after the first `attempt`
upsert_batch_rest(pts, attempt) == SubSeq(pts, attempt + 1, Len(pts))

\* the points argument of the upsert call of an attempt: the whole list
upsert_batch(pts, attempt) == pts

Upsert(c) ==
  /\ pc[c] = "upsert"
  /\ \E r \in Allowed(upsert_answers(collection, Env(env).upsert_faults), fault_budget) :
     \E done \in upsert_applied(r, collection) :
       LET batch == upsert_batch(loc[c].points, loc[c].attempt)
           o == [obs[c] EXCEPT !.upsert_log = Append(@, r),
                            !.sent = Append(@, batch),
                            !.applied = Append(@, done)]
       IN
       /\ fault_budget' = spend(fault_budget, r)
       /\ points' = IF done THEN upsert_points(points, batch) ELSE points
       /\ IF r = "ok"
          THEN /\ loc' = [loc EXCEPT ![c].upsert_success = TRUE]
               /\ disk' = disk \ {loc[c].temp_path}
               /\ obs' = [obs EXCEPT ![c] =
                    [o EXCEPT
                       !.messages = Append(@, Msg("success", loc[c].file_type_name \o " successfully ingested!")),
                       !.done = TRUE]]
               /\ pc' = [pc EXCEPT ![c] = "idle"]
          ELSE LET l == [loc[c] EXCEPT !.last_error = r] IN
               IF classify(r).is_not_found
               THEN /\ loc' = [loc EXCEPT ![c] = l]
                    /\ obs' = [obs EXCEPT ![c] = o]
                    /\ pc' = [pc EXCEPT ![c] = "otf_create"]
                    /\ UNCHANGED disk
               ELSE ApplyLoop(c, loop_tail(l.attempt, classify(r).is_timeout), o, l)
  /\ UNCHANGED <<collection, quota, runs, session_state>>

\* faulty variant: a failure of the creation becomes the error to raise
otf_last_error_create(last_error, create_err) ==
  IF create_err = "ok" THEN last_error ELSE create_err

\* last_error after `except Exception as create_err`: still the upsert's error
otf_last_error(last_error, create_err) == last_error

OtfCreate(c) ==
  /\ pc[c] = "otf_create"
  /\ \E r \in Allowed(create_collection_answers(collection), fault_budget) :
       LET o == [obs[c] EXCEPT !.create_log = Append(@, r)] IN
       /\ fault_budget' = spend(fault_budget, r)
       /\ collection' = IF r = "ok" THEN created_collection(get_vector_size)
                        ELSE collection
       /\ ApplyLoop(c, otf_create_result(loc[c].attempt, r,
                                         classify(loc[c].last_error).is_timeout),
                    o, [loc[c] EXCEPT !.last_error = otf_last_error(@, r)])
  /\ UNCHANGED <<points, quota, runs, session_state>>

\* ------------------------------------------------------------------------
\* Search handler
\* ------------------------------------------------------------------------
\* "\n\n".join(chunks)
RECURSIVE join(_)
join(chunks) ==
  IF chunks = <<>> THEN <<>>
  ELSE IF Len(chunks) = 1 THEN chunks[1]
  ELSE chunks[1] \o <<"\n", "\n">> \o join(Tail(chunks))

\* the answers query_points can give on a collection holding pts: the stored
\* payloads in some order of score, at most `limit` of them
Hits(pts, limit) ==
  LET n == Min(Cardinality(DOMAIN pts), limit) IN
  {[i \in 1..n |-> pts[f[i]]] :
     f \in {g \in [1..n -> DOMAIN pts] : \A i, j \in 1..n : i # j => g[i] # g[j]}}

\* chunks = [p.payload.get("text", "") for p in hits.points]
hit_texts(hits) == [i \in 1..Len(hits) |-> hits[i].text]

\* faulty variant: the chunk texts are joined last hit first
search_context_reversed(chunks) ==
  join([i \in 1..Len(chunks) |-> chunks[Len(chunks) + 1 - i]])

\* context = "\n\n".join(chunks)
search_context(chunks) == join(chunks)

\* the first store call of the handler behind each button
FirstStep(button) ==
  CASE button = "upload" -> "stage"
    [] button = "search" -> "search"
    [] OTHER -> "delete"

\* A button is clicked: Streamlit runs the script again; init_clients(),
\* which calls QdrantClient(...) and Groq(...) only for a client the session
\* does not hold, and st.stop() if it fails; then the handler of the button.
Click(c) ==
  /\ pc[c] = "idle" /\ quota[c] > 0
  /\ quota' = [quota EXCEPT ![c] = @ - 1]
  /\ runs' = runs + 1
  /\ \E button \in Env(env).buttons,
        client \in (IF session_state[c].qdrant = None
                    THEN {"ok"} \cup Env(env).client_errors ELSE {"ok"}),
        groq \in (IF session_state[c].groq_client = None
                  THEN {"ok"} \cup Env(env).groq_errors ELSE {"ok"}) :
       LET ic == init_clients(session_state[c], client, groq)
           o == [FreshObs EXCEPT !.store_before = StoreNow]
       IN
       /\ session_state' = [session_state EXCEPT ![c] = ic.ss]
       /\ IF ~ic.ret
          THEN /\ obs' = [obs EXCEPT ![c] =
                    [o EXCEPT !.messages = ic.messages, !.done = TRUE]]
               /\ loc' = [loc EXCEPT ![c] = FreshLoc]
               /\ UNCHANGED pc
          ELSE /\ obs' = [obs EXCEPT ![c] = o]
               /\ loc' = [loc EXCEPT ![c] =
                    [FreshLoc EXCEPT !.handler = button,
                                     !.run = runs + 1,
                                     !.silent = (button = "upload")]]
               /\ pc' = [pc EXCEPT ![c] = FirstStep(button)]
  /\ UNCHANGED <<collection, points, disk, fault_budget>>

\* the search handler up to the call of ensure_collection_exists
SearchBegin(c) ==
  /\ pc[c] = "search"
  /\ \E query \in Env(env).queries :
       IF is_blank(query)
       THEN /\ obs' = [obs EXCEPT ![c] =
                 [@ EXCEPT !.messages = <<Msg("warning", "Please enter a question!")>>,
                           !.done = TRUE]]
            /\ pc' = [pc EXCEPT ![c] = "idle"]
       ELSE /\ pc' = [pc EXCEPT ![c] = "ensure_check"]
            /\ UNCHANGED obs
  /\ UNCHANGED <<collection, points, disk, quota, runs, session_state, loc,
                 fault_budget>>

\* qvec = embed(query).tolist(): load_model(), then model.encode
SearchEmbed(c) ==
  /\ pc[c] = "embed"
  /\ \E load \in load_answers(session_state), enc \in encode_answers :
       /\ session_state' = IF load = "ok" THEN with_model(session_state, c)
                           ELSE session_state
       /\ IF load # "ok" THEN SearchRaise(c, load, obs[c])
          ELSE IF enc # "ok" THEN SearchRaise(c, enc, obs[c])
          ELSE /\ pc' = [pc EXCEPT ![c] = "query"]
               /\ UNCHANGED obs
  /\ UNCHANGED <<collection, points, disk, quota, runs, loc, fault_budget>>

Query(c) ==
  /\ pc[c] = "query"
  /\ \E r \in Allowed(query_answers(collection), fault_budget) :
       LET o == [obs[c] EXCEPT !.query_log = Append(@, r)] IN
       /\ fault_budget' = spend(fault_budget, r)
       /\ IF r # "ok"
          THEN /\ SearchRaise(c, r, o)
               /\ UNCHANGED loc
          ELSE \E hits \in Hits(points, MAX_SEARCH_RESULTS) :
                 IF hits = <<>>
                 THEN /\ obs' = [obs EXCEPT ![c] =
                           [o EXCEPT !.hits = hits,
                                     !.messages = Append(@, Msg("warning", "No results found. Please upload a document first.")),
                                     !.done = TRUE]]
                      /\ pc' = [pc EXCEPT ![c] = "idle"]
                      /\ UNCHANGED loc
                 ELSE /\ loc' = [loc EXCEPT ![c].chunks = hit_texts(hits)]
                      /\ obs' = [obs EXCEPT ![c] = [o EXCEPT !.hits = hits]]
                      /\ pc' = [pc EXCEPT ![c] = "llm"]
  /\ UNCHANGED <<collection, points, disk, quota, runs, session_state>>

AskLLM(c) ==
  /\ pc[c] = "llm"
  /\ \E llm \in Env(env).llms :
       LET context == search_context(loc[c].chunks)
           a == generate_llm_answer(<<"q">>, context, llm)
           o == [obs[c] EXCEPT !.llm_calls = @ + 1, !.llm = llm,
                            !.context = context]
       IN
       obs' = [obs EXCEPT ![c] =
         IF a.raised # None
         THEN [o EXCEPT !.raised = a.raised,
                        !.messages = Append(@, Msg("error", "Error during search: " \o a.raised)),
                        !.done = TRUE]
         ELSE [o EXCEPT !.messages = Append(@, Msg("answer", a.value)),
                        !.done = TRUE]]
  /\ pc' = [pc EXCEPT ![c] = "idle"]
  /\ UNCHANGED <<collection, points, disk, quota, runs, session_state, loc,
                 fault_budget>>

\* ------------------------------------------------------------------------
\* "Delete Collection" button
\* ------------------------------------------------------------------------
DeleteCollection(c) ==
  /\ pc[c] = "delete"
  /\ \E r \in Allowed({"ok", E_Handshake}, fault_budget) :
       /\ fault_budget' = spend(fault_budget, r)
       /\ IF r = "ok"
          THEN /\ collection' = NoCollection
               /\ points' = NoPoints
               /\ obs' = [obs EXCEPT ![c] =
                    [@ EXCEPT !.messages = <<Msg("success", "Collection deleted successfully!")>>,
                              !.done = TRUE]]
          ELSE /\ obs' = [obs EXCEPT ![c] =
                    [@ EXCEPT !.messages = <<Msg("error", "Error deleting collection: " \o r)>>,
                              !.done = TRUE]]
               /\ UNCHANGED <<collection, points>>
  /\ pc' = [pc EXCEPT ![c] = "idle"]
  /\ UNCHANGED <<disk, quota, runs, session_state, loc>>

\* ------------------------------------------------------------------------
\* ingest.py
\* ------------------------------------------------------------------------
\* str.strip()
RECURSIVE lstrip(_)
lstrip(text) ==
  IF text # <<>> /\ Head(text) \in Whitespace THEN lstrip(Tail(text)) ELSE text

RECURSIVE rstrip(_)
rstrip(text) ==
  IF text # <<>> /\ text[Len(text)] \in Whitespace
  THEN rstrip(SubSeq(text, 1, Len(text) - 1))
  ELSE text

strip(text) == rstrip(lstrip(text))

\* faulty variant: the loop advances by the overlap
chunk_text_advance_overlap(start, size, ov) == start + ov

\* start += chunk_size - chunk_overlap
chunk_text_advance(start, size, ov) == start + (size - ov)

\* chunk_text(text, chunk_size, chunk_overlap)
RECURSIVE chunk_text_from(_, _, _, _)
chunk_text_from(text, start, size, ov) ==
  IF start < Len(text)
  THEN LET chunk == strip(slice(text, start, start + size)) IN
       (IF chunk # <<>> THEN <<chunk>> ELSE <<>>)
         \o chunk_text_from(text, chunk_text_advance(start, size, ov), size, ov)
  ELSE <<>>

chunk_text(text, size, ov) == chunk_text_from(text, 0, size, ov)

\* load_pdf_text(path): every page's text followed by a newline
load_pdf_text(file) == file.text \o <<"\n">>

\* the points list of store_chunks: the id of a chunk is its index
store_chunks_points(chunks) ==
  [i \in 1..Len(chunks) |->
     [id |-> i - 1, vector |-> embed(chunks[i]), payload |-> [text |-> chunks[i]]]]

\* the exception leaves ingest(): the process ends with it
IngestFail(c, e, o) ==
  /\ obs' = [obs EXCEPT ![c] = [o EXCEPT !.raised = e, !.done = TRUE]]
  /\ pc' = [pc EXCEPT ![c] = "idle"]

\* python ingest.py is started
IngestStart(c) ==
  /\ pc[c] = "idle" /\ quota[c] > 0
  /\ quota' = [quota EXCEPT ![c] = @ - 1]
  /\ runs' = runs + 1
  /\ loc' = [loc EXCEPT ![c] = [FreshLoc EXCEPT !.handler = "ingest"]]
  /\ obs' = [obs EXCEPT ![c] = [FreshObs EXCEPT !.store_before = StoreNow]]
  /\ pc' = [pc EXCEPT ![c] = "ing_load"]
  /\ UNCHANGED <<collection, points, disk, session_state, fault_budget>>

\* ingest(): load_pdf_text, chunk_text, connect_qdrant, load_model; the
\* script is a process of its own, which holds no model when it starts
IngestLoad(c) ==
  /\ pc[c] = "ing_load"
  /\ \E file \in Env(env).pdfs,
        client \in {"ok"} \cup Env(env).client_errors,
        load \in {"ok"} \cup Env(env).load_errors :
       IF file.format # "pdf"
       THEN /\ IngestFail(c, "PdfReadError", obs[c])
            /\ UNCHANGED loc
       ELSE LET chunks == chunk_text(load_pdf_text(file), chunk_size, overlap)
                o == [obs[c] EXCEPT !.file_extension = ".pdf",
                                 !.extracted = TRUE,
                                 !.full_text = load_pdf_text(file)]
            IN /\ loc' = [loc EXCEPT ![c].chunks = chunks]
               /\ IF client # "ok" THEN IngestFail(c, client, o)
                  ELSE IF load # "ok" THEN IngestFail(c, load, o)
                  ELSE /\ pc' = [pc EXCEPT ![c] = "ing_exists"]
                       /\ obs' = [obs EXCEPT ![c] = o]
  /\ UNCHANGED <<collection, points, disk, quota, runs, session_state,
                 fault_budget>>

\* create_collection(client): the collection_exists call
IngestExists(c) ==
  /\ pc[c] = "ing_exists"
  /\ \E r \in Allowed(get_collection_answers(collection), fault_budget) :
       LET o == [obs[c] EXCEPT !.check_log = Append(@, r)] IN
       /\ fault_budget' = spend(fault_budget, r)
       /\ IF r = "ok"
          THEN /\ obs' = [obs EXCEPT ![c] = o]
               /\ pc' = [pc EXCEPT ![c] = "ing_upsert"]
          ELSE IF r = E_NotFound
          THEN /\ obs' = [obs EXCEPT ![c] = o]
               /\ pc' = [pc EXCEPT ![c] = "ing_create"]
          ELSE IngestFail(c, r, o)
  /\ UNCHANGED <<collection, points, disk, quota, runs, session_state, loc>>

\* create_collection(client): the create_collection call
IngestCreate(c) ==
  /\ pc[c] = "ing_create"
  /\ \E r \in Allowed(create_collection_answers(collection), fault_budget) :
       LET o == [obs[c] EXCEPT !.create_log = Append(@, r)] IN
       /\ fault_budget' = spend(fault_budget, r)
       /\ collection' = IF r = "ok" THEN created_collection(get_vector_size)
                        ELSE collection
       /\ IF r = "ok"
          THEN /\ obs' = [obs EXCEPT ![c] = o]
               /\ pc' = [pc EXCEPT ![c] = "ing_upsert"]
          ELSE IngestFail(c, r, o)
  /\ UNCHANGED <<points, disk, quota, runs, session_state, loc>>

\* store_chunks(client, chunks): embed(chunk) for each chunk, with the model
\* that ingest() has loaded, then the upsert of the points
IngestUpsert(c) ==
  /\ pc[c] = "ing_upsert"
  /\ \E enc \in (IF loc[c].chunks = <<>> THEN {"ok"} ELSE encode_answers) :
       IF enc # "ok"
       THEN /\ IngestFail(c, enc, obs[c])
            /\ UNCHANGED <<points, loc, fault_budget>>
       ELSE \E r \in Allowed(upsert_answers(collection, Env(env).upsert_faults), fault_budget) :
            \E done \in upsert_applied(r, collection) :
              LET batch == store_chunks_points(loc[c].chunks)
                  o == [obs[c] EXCEPT !.upsert_log = Append(@, r),
                                   !.sent = Append(@, batch),
                                   !.applied = Append(@, done)]
              IN
              /\ fault_budget' = spend(fault_budget, r)
              /\ points' = IF done THEN upsert_points(points, batch) ELSE points
              /\ loc' = [loc EXCEPT ![c].points = batch]
              /\ IF r = "ok"
                 THEN /\ obs' = [obs EXCEPT ![c] =
                           [o EXCEPT !.messages = <<Msg("print", "Stored chunks")>>,
                                     !.done = TRUE]]
                      /\ pc' = [pc EXCEPT ![c] = "idle"]
                 ELSE IngestFail(c, r, o)
  /\ UNCHANGED <<collection, disk, quota, runs, session_state>>

\* ------------------------------------------------------------------------
\* Specifications
\* ------------------------------------------------------------------------
\* the collection is absent, was made with an embedding model of another
\* dimension (EMBEDDING_MODEL is configurable), or has the model's dimension
InitialStores ==
  {[collection |-> NoCollection, points |-> NoPoints],
   [collection |-> created_collection(2 * VectorSize), points |-> NoPoints],
   [collection |-> created_collection(VectorSize), points |-> NoPoints],
   [collection |-> created_collection(VectorSize),
    points |-> [i \in {0} |-> [text |-> <<"a">>]]]}

\* no text is being chunked
IdleChunker ==
  [full_text |-> <<>>, chunk_size |-> chunk_size, overlap |-> overlap,
   chunks |-> <<>>, done |-> FALSE]

\* no thread is loading the model
IdleEmbedder ==
  [module |-> None, embed_model |-> 0, constructed |-> 0,
   at |-> [t \in {} |-> "idle"], got |-> [t \in {} |-> 0]]

InitSessions ==
  /\ disk = {}
  /\ runs = 0
  /\ session_state = [c \in Callers |->
       [qdrant |-> None, groq_client |-> None, embed_model |-> None]]
  /\ pc = [c \in Callers |-> "idle"]
  /\ loc = [c \in Callers |-> FreshLoc]
  /\ obs = [c \in Callers |-> FreshObs]

\* a chunker before its first iteration
LoopStart == [start |-> 0, chunks |-> <<>>, iterations |-> 0, done |-> FALSE]

\* no text is given to the two chunkers
IdleLoops ==
  [text |-> <<>>, size |-> chunk_size, overlap |-> overlap,
   app |-> LoopStart, ingest |-> LoopStart]

\* no wrapped function is being called
IdleWrapper ==
  [max_retries |-> 3, delay |-> 2, attempt |-> 0, calls |-> <<>>,
   sleeps |-> <<>>, at |-> "idle", result |-> None]

\* the variables of the parts that are not running
InitIdle ==
  /\ chunker = IdleChunker
  /\ embedder = IdleEmbedder
  /\ loops = IdleLoops
  /\ wrapper = IdleWrapper

InitCallers ==
  /\ InitIdle
  /\ InitSessions

\* no session runs a handler and the store is empty
InitNoSession ==
  /\ quota = [c \in Callers |-> 0]
  /\ fault_budget = 0
  /\ env = "full"
  /\ collection = NoCollection
  /\ points = NoPoints
  /\ InitSessions

\* one interactive session on a store in any state
Init ==
  /\ quota = [c \in Callers |-> IF c = "s1" THEN MaxRuns ELSE 0]
  /\ fault_budget = AnyFaults
  /\ env = "full"
  /\ \E s \in InitialStores : collection = s.collection /\ points = s.points
  /\ InitCallers

\* two callers that bootstrap the same absent collection
InitRace ==
  /\ quota = [c \in Callers |-> 1]
  /\ fault_budget = RaceFaults
  /\ env = "race"
  /\ collection = NoCollection
  /\ points = NoPoints
  /\ InitCallers

\* one step of one caller; the surroundings stay what they are
Next ==
  \/ \E c \in Callers : Click(c) /\ UNCHANGED <<env, chunker, embedder, loops, wrapper>>
  \/ \E c \in Callers : UploadStage(c) /\ UNCHANGED <<env, chunker, embedder, loops, wrapper>>
  \/ \E c \in Callers : UploadExtract(c) /\ UNCHANGED <<env, chunker, embedder, loops, wrapper>>
  \/ \E c \in Callers : EnsureCheck(c) /\ UNCHANGED <<env, chunker, embedder, loops, wrapper>>
  \/ \E c \in Callers : EnsureVectorSize(c) /\ UNCHANGED <<env, chunker, embedder, loops, wrapper>>
  \/ \E c \in Callers : EnsureCreate(c) /\ UNCHANGED <<env, chunker, embedder, loops, wrapper>>
  \/ \E c \in Callers : Upsert(c) /\ UNCHANGED <<env, chunker, embedder, loops, wrapper>>
  \/ \E c \in Callers : OtfCreate(c) /\ UNCHANGED <<env, chunker, embedder, loops, wrapper>>
  \/ \E c \in Callers : SearchBegin(c) /\ UNCHANGED <<env, chunker, embedder, loops, wrapper>>
  \/ \E c \in Callers : SearchEmbed(c) /\ UNCHANGED <<env, chunker, embedder, loops, wrapper>>
  \/ \E c \in Callers : Query(c) /\ UNCHANGED <<env, chunker, embedder, loops, wrapper>>
  \/ \E c \in Callers : AskLLM(c) /\ UNCHANGED <<env, chunker, embedder, loops, wrapper>>
  \/ \E c \in Callers : DeleteCollection(c) /\ UNCHANGED <<env, chunker, embedder, loops, wrapper>>
  \/ \E c \in Callers : IngestStart(c) /\ UNCHANGED <<env, chunker, embedder, loops, wrapper>>
  \/ \E c \in Callers : IngestLoad(c) /\ UNCHANGED <<env, chunker, embedder, loops, wrapper>>
  \/ \E c \in Callers : IngestExists(c) /\ UNCHANGED <<env, chunker, embedder, loops, wrapper>>
  \/ \E c \in Callers : IngestCreate(c) /\ UNCHANGED <<env, chunker, embedder, loops, wrapper>>
  \/ \E c \in Callers : IngestUpsert(c) /\ UNCHANGED <<env, chunker, embedder, loops, wrapper>>

Spec == Init /\ [][Next]_vars

SpecRace == InitRace /\ [][Next]_vars

\* two searches, one after the other or concurrently, on a store in any
\* state that may fail any number of times: ensure_collection_exists twice
InitEnsure ==
  /\ quota = [c \in Callers |-> 1]
  /\ fault_budget = AnyFaults
  /\ env = "ensure"
  /\ \E s \in InitialStores : collection = s.collection /\ points = s.points
  /\ InitCallers

NextEnsure ==
  \/ \E c \in Callers : Click(c) /\ UNCHANGED <<env, chunker, embedder, loops, wrapper>>
  \/ \E c \in Callers : SearchBegin(c) /\ UNCHANGED <<env, chunker, embedder, loops, wrapper>>
  \/ \E c \in Callers : SearchEmbed(c) /\ UNCHANGED <<env, chunker, embedder, loops, wrapper>>
  \/ \E c \in Callers : EnsureCheck(c) /\ UNCHANGED <<env, chunker, embedder, loops, wrapper>>
  \/ \E c \in Callers : EnsureVectorSize(c) /\ UNCHANGED <<env, chunker, embedder, loops, wrapper>>
  \/ \E c \in Callers : EnsureCreate(c) /\ UNCHANGED <<env, chunker, embedder, loops, wrapper>>
  \/ \E c \in Callers : Query(c) /\ UNCHANGED <<env, chunker, embedder, loops, wrapper>>
  \/ \E c \in Callers : AskLLM(c) /\ UNCHANGED <<env, chunker, embedder, loops, wrapper>>

SpecEnsure == InitEnsure /\ [][NextEnsure]_vars

\* ingestions only, of documents of one and of two chunks, on a store in any
\* state whose replies to upsert can be lost
InitBatch ==
  /\ quota = [c \in Callers |-> IF c = "s1" THEN MaxRuns ELSE 0]
  /\ fault_budget = AnyFaults
  /\ env = "batch"
  /\ \E s \in InitialStores : collection = s.collection /\ points = s.points
  /\ InitCallers

NextBatch ==
  \/ \E c \in Callers : Click(c) /\ UNCHANGED <<env, chunker, embedder, loops, wrapper>>
  \/ \E c \in Callers : UploadStage(c) /\ UNCHANGED <<env, chunker, embedder, loops, wrapper>>
  \/ \E c \in Callers : UploadExtract(c) /\ UNCHANGED <<env, chunker, embedder, loops, wrapper>>
  \/ \E c \in Callers : EnsureCheck(c) /\ UNCHANGED <<env, chunker, embedder, loops, wrapper>>
  \/ \E c \in Callers : EnsureVectorSize(c) /\ UNCHANGED <<env, chunker, embedder, loops, wrapper>>
  \/ \E c \in Callers : EnsureCreate(c) /\ UNCHANGED <<env, chunker, embedder, loops, wrapper>>
  \/ \E c \in Callers : Upsert(c) /\ UNCHANGED <<env, chunker, embedder, loops, wrapper>>
  \/ \E c \in Callers : OtfCreate(c) /\ UNCHANGED <<env, chunker, embedder, loops, wrapper>>
  \/ \E c \in Callers : IngestStart(c) /\ UNCHANGED <<env, chunker, embedder, loops, wrapper>>
  \/ \E c \in Callers : IngestLoad(c) /\ UNCHANGED <<env, chunker, embedder, loops, wrapper>>
  \/ \E c \in Callers : IngestExists(c) /\ UNCHANGED <<env, chunker, embedder, loops, wrapper>>
  \/ \E c \in Callers : IngestCreate(c) /\ UNCHANGED <<env, chunker, embedder, loops, wrapper>>
  \/ \E c \in Callers : IngestUpsert(c) /\ UNCHANGED <<env, chunker, embedder, loops, wrapper>>

SpecBatch == InitBatch /\ [][NextBatch]_vars

\* ------------------------------------------------------------------------
\* The chunking loop on its own
\* ------------------------------------------------------------------------
\* the texts of at most n characters
Texts(n) == UNION {[1..k -> {"a", "b"}] : k \in 0..n}

\* a text and a valid (size, overlap): 0 <= overlap < size
InitChunk ==
  /\ \E t \in Texts(MaxLen) : \E size \in 1..MaxSize : \E ov \in 0..(size - 1) :
       chunker = [full_text |-> t, chunk_size |-> size, overlap |-> ov,
                  chunks |-> <<>>, done |-> FALSE]
  /\ embedder = IdleEmbedder
  /\ loops = IdleLoops
  /\ wrapper = IdleWrapper
  /\ InitNoSession

\* the chunking loop runs on the text
ChunkText ==
  /\ ~chunker.done
  /\ chunker' = [chunker EXCEPT
                   !.chunks = chunk_loop(chunker.full_text, 0, chunker.chunk_size,
                                         chunker.overlap),
                   !.done = TRUE]
  /\ UNCHANGED <<collection, points, disk, quota, runs, session_state, pc, loc,
                 obs, fault_budget, env, embedder, loops, wrapper>>

NextChunk == ChunkText

SpecChunk == InitChunk /\ [][NextChunk]_vars

\* ------------------------------------------------------------------------
\* The two chunkers on the same text, one loop iteration per step
\* ------------------------------------------------------------------------
\* the texts of at most n characters, some of them white space
SpacedTexts(n) == UNION {[1..k -> {"a", " "}] : k \in 0..n}

\* the valid (size, overlap) up to MaxSize, and the programs' own values
ChunkParams ==
  {p \in (1..MaxSize) \X (0..(MaxSize - 1)) : p[2] < p[1]}
    \cup {<<chunk_size, overlap>>}

InitChunkers ==
  /\ \E t \in SpacedTexts(MaxLen) : \E p \in ChunkParams :
       loops = [text |-> t, size |-> p[1], overlap |-> p[2],
                app |-> LoopStart, ingest |-> LoopStart]
  /\ chunker = IdleChunker
  /\ embedder = IdleEmbedder
  /\ wrapper = IdleWrapper
  /\ InitNoSession

ChunkersUnchanged ==
  UNCHANGED <<collection, points, disk, quota, runs, session_state, pc, loc,
              obs, fault_budget, env, chunker, embedder, wrapper>>

\* app.py: `while start < len(full_text)` holds; the body of the loop
AppLoopBody ==
  /\ ~loops.app.done
  /\ loops.app.start < Len(loops.text)
  /\ loops' = [loops EXCEPT
       !.app.chunks = Append(@, slice(loops.text, loops.app.start,
                                      loops.app.start + loops.size)),
       !.app.start = chunk_advance(@, loops.size, loops.overlap),
       !.app.iterations = @ + 1]
  /\ ChunkersUnchanged

\* app.py: `while start < len(full_text)` fails; the loop is left
AppLoopExit ==
  /\ ~loops.app.done
  /\ ~(loops.app.start < Len(loops.text))
  /\ loops' = [loops EXCEPT !.app.done = TRUE]
  /\ ChunkersUnchanged

\* ingest.py: `while start < len(text)` holds; the body of the loop
ChunkTextBody ==
  /\ ~loops.ingest.done
  /\ loops.ingest.start < Len(loops.text)
  /\ LET chunk == strip(slice(loops.text, loops.ingest.start,
                              loops.ingest.start + loops.size))
     IN loops' = [loops EXCEPT
          !.ingest.chunks = IF chunk # <<>> THEN Append(@, chunk) ELSE @,
          !.ingest.start = chunk_text_advance(@, loops.size, loops.overlap),
          !.ingest.iterations = @ + 1]
  /\ ChunkersUnchanged

\* ingest.py: `while start < len(text)` fails; `return chunks`
ChunkTextReturn ==
  /\ ~loops.ingest.done
  /\ ~(loops.ingest.start < Len(loops.text))
  /\ loops' = [loops EXCEPT !.ingest.done = TRUE]
  /\ ChunkersUnchanged

NextChunkers ==
  \/ AppLoopBody
  \/ AppLoopExit
  \/ ChunkTextBody
  \/ ChunkTextReturn

\* a running loop goes on running
SpecChunkers ==
  InitChunkers /\ [][NextChunkers]_vars /\ WF_vars(NextChunkers)

\* ------------------------------------------------------------------------
\* retry_qdrant_operation(max_retries, delay) around a function
\* ------------------------------------------------------------------------
\* what a call of the wrapped function gives: a value, or a failure
FuncResults == {"r1", "r2"}
FuncErrors == {E_ConnTimeout, E_Refused, E_Schema}
E_RaiseNone == "exceptions must derive from BaseException"

InitWrapper ==
  /\ \E n \in 0..MaxTries : \E d \in 0..MaxDelay :
       wrapper = [max_retries |-> n, delay |-> d, attempt |-> 0, calls |-> <<>>,
                  sleeps |-> <<>>, at |-> "loop", result |-> None]
  /\ chunker = IdleChunker
  /\ embedder = IdleEmbedder
  /\ loops = IdleLoops
  /\ InitNoSession

WrapperUnchanged ==
  UNCHANGED <<collection, points, disk, quota, runs, session_state, pc, loc,
              obs, fault_budget, env, chunker, embedder, loops>>

\* faulty variant: every failure before the last attempt is retried
wrapper_retries_any(retryable, attempt, n) == attempt < n - 1

\* `if is_retryable and attempt < max_retries - 1`
wrapper_retries(retryable, attempt, n) == retryable /\ attempt < n - 1

\* the delay of time.sleep(delay * (attempt + 1))
wrapper_delay(delay, attempt) == delay * (attempt + 1)

\* one iteration of `for attempt in range(max_retries)`: the call of func and
\* the except clause
WrapperCall ==
  /\ wrapper.at = "loop"
  /\ wrapper.attempt < wrapper.max_retries
  /\ \E r \in FuncResults \cup FuncErrors :
       LET w == [wrapper EXCEPT !.calls = Append(@, r)] IN
       IF r \in FuncResults
       THEN wrapper' = [w EXCEPT !.at = "returned", !.result = r]
       ELSE IF wrapper_retries(classify(r).is_retryable, wrapper.attempt,
                               wrapper.max_retries)
       THEN wrapper' = [w EXCEPT
                          !.sleeps = Append(@, wrapper_delay(wrapper.delay, wrapper.attempt)),
                          !.attempt = @ + 1]
       ELSE wrapper' = [w EXCEPT !.at = "raised", !.result = r]
  /\ WrapperUnchanged

\* the loop is over without a return or a raise: `raise last_error`, which
\* happens only when range(max_retries) is empty and last_error is None
WrapperLoopEnd ==
  /\ wrapper.at = "loop"
  /\ ~(wrapper.attempt < wrapper.max_retries)
  /\ wrapper' = [wrapper EXCEPT
       !.at = "raised",
       !.result = IF wrapper.calls = <<>> THEN E_RaiseNone
                  ELSE wrapper.calls[Len(wrapper.calls)]]
  /\ WrapperUnchanged

NextWrapper ==
  \/ WrapperCall
  \/ WrapperLoopEnd

SpecWrapper == InitWrapper /\ [][NextWrapper]_vars

\* ------------------------------------------------------------------------
\* load_model called by the threads of one process
\* ------------------------------------------------------------------------
Threads == 1..MaxThreads
Modules == {"app", "ingest", "main"}

InitLoad ==
  /\ \E m \in Modules :
       embedder = [module |-> m, embed_model |-> 0, constructed |-> 0,
                   at |-> [t \in Threads |-> "idle"],
                   got |-> [t \in Threads |-> 0]]
  /\ chunker = IdleChunker
  /\ loops = IdleLoops
  /\ wrapper = IdleWrapper
  /\ InitNoSession

LoadUnchanged ==
  UNCHANGED <<collection, points, disk, quota, runs, session_state, pc, loc,
              obs, fault_budget, env, chunker, loops, wrapper>>

\* ingest.py, main.py: `if _embed_model is None:`
LoadCheck(t) ==
  /\ embedder.module \in {"ingest", "main"}
  /\ embedder.at[t] = "idle"
  /\ embedder' = [embedder EXCEPT
                    !.at[t] = IF embedder.embed_model = 0 THEN "construct"
                              ELSE "return"]
  /\ LoadUnchanged

\* ingest.py, main.py: `_embed_model = SentenceTransformer(EMBEDDING_MODEL)`
LoadConstruct(t) ==
  /\ embedder.at[t] = "construct"
  /\ embedder' = [embedder EXCEPT
                    !.constructed = @ + 1,
                    !.embed_model = embedder.constructed + 1,
                    !.at[t] = "return"]
  /\ LoadUnchanged

\* ingest.py, main.py: `return _embed_model`, a read of the global
LoadReturn(t) ==
  /\ embedder.at[t] = "return"
  /\ embedder' = [embedder EXCEPT
                    !.got[t] = embedder.embed_model,
                    !.at[t] = "done"]
  /\ LoadUnchanged

\* app.py: load_model under st.cache_resource, which computes the value of a
\* function once while holding the cache's lock and hands out the cached value
LoadCached(t) ==
  /\ embedder.module = "app"
  /\ embedder.at[t] = "idle"
  /\ LET built == embedder.embed_model = 0
         model == IF built THEN embedder.constructed + 1 ELSE embedder.embed_model
     IN embedder' = [embedder EXCEPT
                       !.constructed = IF built THEN @ + 1 ELSE @,
                       !.embed_model = model,
                       !.got[t] = model,
                       !.at[t] = "done"]
  /\ LoadUnchanged

NextLoad ==
  \/ \E t \in Threads : LoadCheck(t)
  \/ \E t \in Threads : LoadConstruct(t)
  \/ \E t \in Threads : LoadReturn(t)
  \/ \E t \in Threads : LoadCached(t)

SpecLoad == InitLoad /\ [][NextLoad]_vars

TypeOK ==
  /\ collection \in {NoCollection, created_collection(VectorSize),
                     created_collection(2 * VectorSize)}
  /\ disk \subseteq {TempName(n) : n \in 1..MaxRuns}
  /\ runs \in 0..MaxRuns
  /\ \A c \in Callers : quota[c] \in 0..MaxRuns
  /\ \A c \in Callers : pc[c] \in {"idle", "ensure_check", "ensure_create",
                                   "ensure_size", "embed",
                                   "stage", "extract", "search", "delete", "upsert",
                                   "otf_create", "query", "llm", "ing_load",
                                   "ing_exists", "ing_create", "ing_upsert"}

\* ------------------------------------------------------------------------
\* Properties
\* ------------------------------------------------------------------------
Finished(c) == pc[c] = "idle" /\ obs[c].done
UploadDone(c) == Finished(c) /\ loc[c].handler = "upload"

StoreErrors == ErrorTexts
Failed(r) == r \in StoreErrors
RetryableFailure(r) == Failed(r) /\ classify(r).is_retryable
PermanentFailure(r) ==
  Failed(r) /\ ~classify(r).is_retryable /\ ~classify(r).is_not_found
NotFoundFailure(r) == Failed(r) /\ classify(r).is_not_found

LastMessage(c) == obs[c].messages[Len(obs[c].messages)]

ReportsSuccess(c) ==
  /\ obs[c].messages # <<>>
  /\ LastMessage(c)[1] = "success"
  /\ obs[c].raised = None

\* C1: when every upsert attempt of an upload fails with a retryable-classified
\* description, upsert has been called exactly 3 times when the handler ends
\* and the failure of the last attempt is raised to the caller.
C1_RetryableExhausts ==
  \A c \in Callers :
    (/\ UploadDone(c)
     /\ obs[c].upsert_log # <<>>
     /\ \A i \in 1..Len(obs[c].upsert_log) : RetryableFailure(obs[c].upsert_log[i]))
    => /\ Len(obs[c].upsert_log) = 3
       /\ obs[c].raised = obs[c].upsert_log[3]
       /\ LastMessage(c) = Msg("error", "Error processing document: " \o obs[c].upsert_log[3])

C1_Witness ==
  \E c \in Callers :
    /\ UploadDone(c)
    /\ obs[c].upsert_log = <<E_ConnTimeout, E_ConnTimeout, E_ConnTimeout>>
    /\ obs[c].raised = E_ConnTimeout

\* C2: a permanent failure of an upsert attempt (neither retryable nor
\* collection-not-found) propagates immediately: it is the last upsert call of
\* the upload and it is raised.
C2_PermanentPropagates ==
  \A c \in Callers :
    loc[c].handler = "upload" =>
      \A i \in 1..Len(obs[c].upsert_log) :
        PermanentFailure(obs[c].upsert_log[i]) =>
          /\ i = Len(obs[c].upsert_log)
          /\ obs[c].raised = obs[c].upsert_log[i]

\* C3: an upload whose upsert fails twice with "handshake timeout" and then
\* succeeds reports success, after exactly two backoff delays: 2 s and 4 s.
C3_TwoBackoffsThenSuccess ==
  \A c \in Callers :
    (UploadDone(c) /\ obs[c].upsert_log = <<E_Handshake, E_Handshake, "ok">>)
    => /\ ReportsSuccess(c)
       /\ obs[c].sleeps = <<2, 4>>

C3_Witness ==
  \E c \in Callers :
    /\ UploadDone(c)
    /\ obs[c].upsert_log = <<E_Handshake, E_Handshake, "ok">>
    /\ obs[c].sleeps = <<2, 4>>
    /\ ReportsSuccess(c)

\* C4: a collection-not-found failure of an upsert attempt is never surfaced
\* to the caller of the upload, whatever the attempt number: the collection is
\* created and the write is retried.
C4_NotFoundNeverSurfaced ==
  \A c \in Callers :
    loc[c].handler = "upload" =>
      /\ ~NotFoundFailure(obs[c].raised)
      /\ (Finished(c) /\ obs[c].upsert_log # <<>>
            => ~NotFoundFailure(obs[c].upsert_log[Len(obs[c].upsert_log)]))

\* ---- ensure_collection_exists called twice (SpecEnsure) ----
Range(q) == {q[i] : i \in 1..Len(q)}

\* both callers' ensure_collection_exists have returned
BothEnsured == \A c \in Callers : Len(obs[c].ensure_ret) = 1

\* C5 as stated: whatever the store answers, two calls of
\* ensure_collection_exists never raise and leave the collection in the store,
\* bound to the model's dimension, and the call that starts after the other one
\* created the collection issues no create.
C5_EnsureTwiceAnyResponses ==
  BothEnsured =>
    /\ \A c \in Callers : obs[c].ensure_raised = None
    /\ collection = created_collection(get_vector_size)
    /\ \A c1, c2 \in Callers :
         (/\ c1 # c2
          /\ "ok" \in Range(obs[c1].ensure_log)
          /\ obs[c2].store_before.collection # NoCollection)
         => obs[c2].ensure_log = <<>>

\* ---- two callers bootstrap the same absent collection (SpecRace) ----
\* C6: at every creation site, a create call answered "already exists" counts
\* as success: the caller that got this answer does not fail with it.
C6_AlreadyExistsIsSuccess ==
  \A c \in Callers :
    E_AlreadyExists \in Range(obs[c].ensure_log) \cup Range(obs[c].create_log)
      => obs[c].raised # E_AlreadyExists

\* ---- search ----
SearchDone(c) == Finished(c) /\ loc[c].handler = "search"

Sentinel == Msg("warning", "Collection doesn't exist. Please upload a document first.")

\* C7: a search that reaches the store while the collection has never been
\* created shows the "Collection doesn't exist. Please upload a document
\* first." response and nothing else, and raises nothing.
C7_SearchAbsentGivesSentinel ==
  \A c \in Callers :
    (/\ SearchDone(c)
     /\ obs[c].store_before.collection = NoCollection
     /\ obs[c].check_log # <<>>)
    => /\ obs[c].messages = <<Sentinel>>
       /\ obs[c].raised = None

\* C8: a search never changes the store: while a caller's search handler runs,
\* and when it has ended, the collection and its points are what they were
\* when the search started.
C8_SearchLeavesStore ==
  \A c \in Callers :
    loc[c].handler = "search" => StoreNow = obs[c].store_before

\* ---- generate_llm_answer ----
\* the LLM call failed: at request creation, or while the stream was consumed
LLMFailure(llm) ==
  IF llm.create_error # None THEN llm.create_error
  ELSE IF llm.stream # <<>> /\ llm.stream[Len(llm.stream)].error # None
  THEN llm.stream[Len(llm.stream)].error
  ELSE None

\* C9: generate_llm_answer never raises, so a search that called it ends with
\* an answer shown and no exception; when the LLM call failed, at creation or
\* in the stream, the answer is exactly "Error generating answer: " followed
\* by the failure, without the fragments streamed before it.
C9_LLMFailureIsString ==
  \A c \in Callers :
    (SearchDone(c) /\ obs[c].llm_calls = 1)
    => /\ obs[c].raised = None
       /\ LastMessage(c)[1] = "answer"
       /\ LLMFailure(obs[c].llm) # None
            => LastMessage(c)[2] = "Error generating answer: " \o LLMFailure(obs[c].llm)

\* the stream breaks after a fragment was received
C9_Witness ==
  \E c \in Callers :
    /\ SearchDone(c)
    /\ obs[c].llm_calls = 1
    /\ obs[c].llm.stream = <<Delta("Hello"), Broken("stream reset")>>
    /\ LastMessage(c) = Msg("answer", "Error generating answer: stream reset")

\* ---- temporary files ----
\* C10: when the upload handler has ended, on whatever path, the temporary
\* file staged by this run is no longer on disk.
C10_TempFileReleased ==
  \A c \in Callers : UploadDone(c) => obs[c].temp_name \notin disk

\* ---- empty extraction ----
\* C11: on every ingestion path, when the extracted text is empty or only
\* whitespace the ingestion makes no store call (no existence check, no
\* creation, no upsert), leaves the store as it was and ends with an error.
C11_EmptyExtractionFailsFast ==
  \A c \in Callers :
    (/\ loc[c].handler \in {"upload", "ingest"}
     /\ obs[c].extracted
     /\ is_blank(obs[c].full_text))
    => /\ obs[c].check_log = <<>>
       /\ obs[c].ensure_log = <<>>
       /\ obs[c].create_log = <<>>
       /\ obs[c].upsert_log = <<>>
       /\ StoreNow = obs[c].store_before
       /\ Finished(c) => (obs[c].raised # None
                            \/ (obs[c].messages # <<>> /\ LastMessage(c)[1] = "error"))

\* ---- the existence check of ensure_collection_exists ----
\* the caller's ensure_collection_exists has returned after get_collection failed
CheckFailed(c) ==
  /\ Len(obs[c].ensure_ret) = 1
  /\ Len(obs[c].check_log) = 1
  /\ obs[c].check_log[1] # "ok"

EnsureErrorShown(c) ==
  \E i \in 1..Len(obs[c].messages) :
    /\ obs[c].messages[i][1] = "error"
    /\ obs[c].messages[i][2] \in {"Error ensuring collection exists: " \o e : e \in ErrorTexts}

\* C18 as stated: whatever error get_collection fails with,
\* ensure_collection_exists returns True without a create call and without an
\* error shown.
C18_AnyCheckErrorSwallowed ==
  \A c \in Callers :
    CheckFailed(c)
    => /\ obs[c].ensure_ret = <<TRUE>>
       /\ obs[c].ensure_log = <<>>
       /\ ~EnsureErrorShown(c)

\* C18 (amended): when get_collection fails with a timeout-class error
\* (timeout, handshake, ssl) ensure_collection_exists returns True without a
\* create call and without an error shown; on any other failure of the check,
\* collection-not-found included, it goes on to the creation (the vector size
\* and, unless get_vector_size fails, one create call), and returns True.
C18_TimeoutCheckErrorSwallowed ==
  \A c \in Callers :
    CheckFailed(c)
    => /\ obs[c].ensure_ret = <<TRUE>>
       /\ obs[c].ensure_raised = None
       /\ IF classify(obs[c].check_log[1]).is_timeout
          THEN obs[c].ensure_log = <<>> /\ ~EnsureErrorShown(c)
          ELSE /\ Len(obs[c].vector_log) = 1
               /\ Len(obs[c].ensure_log) = (IF obs[c].vector_log = <<"ok">> THEN 1 ELSE 0)

\* the check timed out on an absent collection, which is assumed to exist
C18_Witness ==
  \E c \in Callers :
    /\ CheckFailed(c)
    /\ obs[c].check_log = <<E_Handshake>>
    /\ obs[c].ensure_log = <<>>
    /\ obs[c].ensure_ret = <<TRUE>>
    /\ collection = NoCollection

\* ---- failure classification ----
\* C19: every site classifies a failure description the same way, retryable
\* exactly when it contains timeout, handshake, ssl or connection: in the
\* upsert loop, a failed attempt (other than collection-not-found) that is
\* followed by another attempt was followed by its backoff delay exactly when
\* its description is retryable.
C19_OneClassification ==
  \A c \in Callers :
    loc[c].handler = "upload" =>
      \A i \in 1..Len(obs[c].upsert_log) :
        (/\ i < Len(obs[c].upsert_log)
         /\ Failed(obs[c].upsert_log[i])
         /\ ~classify(obs[c].upsert_log[i]).is_not_found)
        => (classify(obs[c].upsert_log[i]).is_retryable
              <=> backoff(i - 1) \in Range(obs[c].sleeps))

\* ---- legacy formats ----
LegacyExtensions == {".doc", ".ppt"}

OpenErrors ==
  {"Package not found", "file is not a Word file", "file is not a PowerPoint file",
   "PowerPoint file is empty or corrupted"}

\* the errors that tell the caller to convert to the modern format
ConvertErrors ==
  {"Error reading Word document. For .doc files, please convert to .docx format. Error: " \o e :
     e \in OpenErrors}
  \cup
  {"Error reading PowerPoint file. Legacy .ppt format is not fully supported. Please convert to .pptx format. Error: " \o e :
     e \in OpenErrors}

\* C20: extract_text_from_file on a .doc or .ppt extension never returns a
\* text: it fails with an error that tells the caller to convert the file.
C20_LegacyAlwaysFails ==
  \A c \in Callers :
    (loc[c].handler = "upload" /\ obs[c].file_extension \in LegacyExtensions)
    => /\ ~obs[c].extracted
       /\ obs[c].raised \in ConvertErrors

\* an ingestion (upload handler or ingest.py) that ended reporting success
IngestionSucceeded(c) ==
  /\ Finished(c)
  /\ loc[c].handler \in {"upload", "ingest"}
  /\ obs[c].messages # <<>>
  /\ LastMessage(c)[1] \in {"success", "print"}
  /\ obs[c].raised = None
  /\ obs[c].upsert_log # <<>>

\* C12: every point stored by a successful ingestion has an id distinct from
\* every other stored point: the ingestion's n chunks are n new points, so
\* the collection holds n points more than when the ingestion started.
C12_IngestedPointsAreNew ==
  \A c \in Callers :
    IngestionSucceeded(c)
    => Cardinality(DOMAIN points)
         = Cardinality(DOMAIN obs[c].store_before.points) + Len(loc[c].chunks)

\* C13: every upsert call of an upload carries the complete list of the
\* document's points, one per chunk, also when an earlier attempt was applied
\* by the store and reported as failed; after a success the collection holds
\* what one upsert of the whole list leaves.
C13_RetryResendsWholeBatch ==
  \A c \in Callers :
    loc[c].handler = "upload" =>
      /\ \A i \in 1..Len(obs[c].sent) :
           /\ obs[c].sent[i] = loc[c].points
           /\ Len(obs[c].sent[i]) = Len(loc[c].chunks)
      /\ (UploadDone(c) /\ ReportsSuccess(c) /\ obs[c].upsert_log # <<>>)
           => points = upsert_points(obs[c].store_before.points, loc[c].points)

C13_Witness ==
  \E c \in Callers :
    /\ UploadDone(c)
    /\ ReportsSuccess(c)
    /\ Len(loc[c].chunks) = 2
    /\ obs[c].upsert_log = <<E_ReadTimeout, "ok">>
    /\ obs[c].applied = <<TRUE, TRUE>>
\* ceil(a / b) for a >= 0 and b > 0
CeilDiv(a, b) == (a + b - 1) \div b

\* C14: the chunking loop makes ceil((L - overlap) / (size - overlap)) chunks
\* of a text of L > overlap characters, 1 chunk when 0 < L <= overlap and no
\* chunk when L = 0.
C14_ChunkCount ==
  chunker.done =>
    LET L == Len(chunker.full_text)
        size == chunker.chunk_size
        ov == chunker.overlap
    IN Len(chunker.chunks) =
         IF L > ov THEN CeilDiv(L - ov, size - ov)
         ELSE IF L > 0 THEN 1 ELSE 0

\* the chunks put together, each chunk after the first without its first
\* ov characters
RECURSIVE Stitched(_, _)
Stitched(chunks, ov) ==
  IF Len(chunks) <= 1 THEN (IF chunks = <<>> THEN <<>> ELSE chunks[1])
  ELSE LET last == chunks[Len(chunks)]
       IN Stitched(SubSeq(chunks, 1, Len(chunks) - 1), ov)
            \o SubSeq(last, ov + 1, Len(last))

\* C15: the chunks of a text, concatenated after the first `overlap`
\* characters of every chunk but the first are removed, are the text.
C15_RoundTrip ==
  chunker.done => Stitched(chunker.chunks, chunker.overlap) = chunker.full_text

C15_Witness ==
  /\ chunker.done
  /\ chunker.overlap > 0
  /\ Len(chunker.chunks) >= 3
  /\ \E i \in 1..Len(chunker.chunks) : Len(chunker.chunks[i]) < chunker.overlap
  /\ \E i, j \in 1..Len(chunker.full_text) : chunker.full_text[i] # chunker.full_text[j]

\* C16: chunk i (from 0) is the non-empty text[i*(size-overlap) :
\* i*(size-overlap)+size], and every chunk except the last has exactly `size`
\* characters.
C16_OnlyLastChunkShorter ==
  chunker.done =>
    LET size == chunker.chunk_size
        step == chunker.chunk_size - chunker.overlap
        n == Len(chunker.chunks)
    IN \A i \in 1..n :
         /\ chunker.chunks[i] = slice(chunker.full_text, (i - 1) * step, (i - 1) * step + size)
         /\ chunker.chunks[i] # <<>>
         /\ i < n => Len(chunker.chunks[i]) = size

\* the threads whose call of load_model returned
Loaded == {t \in DOMAIN embedder.at : embedder.at[t] = "done"}

\* C17: whatever the interleaving of the threads' first calls of load_model,
\* the model is constructed once and every caller gets that instance.
C17_ModelLoadedOnce ==
  /\ embedder.constructed <= 1
  /\ \A t \in Loaded : embedder.got[t] = 1
\* the query of a search was answered, with these points
QueryAnswered(c) ==
  /\ loc[c].handler = "search"
  /\ obs[c].query_log = <<"ok">>

\* C21: a search whose query returned no point shows the "no results"
\* warning and never calls the LLM; the LLM is called only after a query that
\* returned at least one point, with the points' texts joined by a blank line
\* in the order the store returned them.
C21_LLMOnlyWithRetrievedContext ==
  \A c \in Callers :
    /\ (QueryAnswered(c) /\ obs[c].hits = <<>>)
         => /\ obs[c].llm_calls = 0
            /\ Finished(c)
            /\ LastMessage(c) = Msg("warning", "No results found. Please upload a document first.")
    /\ (loc[c].handler = "search" /\ obs[c].llm_calls > 0)
         => /\ QueryAnswered(c)
            /\ Len(obs[c].hits) >= 1
            /\ obs[c].context = join([i \in 1..Len(obs[c].hits) |-> obs[c].hits[i].text])

C21_Witness ==
  \E c \in Callers :
    /\ SearchDone(c)
    /\ obs[c].llm_calls = 1
    /\ Len(obs[c].hits) = 2
    /\ obs[c].hits[1].text # obs[c].hits[2].text
    /\ obs[c].context = obs[c].hits[1].text \o <<"\n", "\n">> \o obs[c].hits[2].text
ChunkersDone == loops.app.done /\ loops.ingest.done

\* C22: on every text and every valid (size, overlap) both chunkers
\* terminate, after at most one iteration per character of the text, and on
\* the empty text both return the empty sequence.
C22_ChunkersTerminate ==
  /\ <>ChunkersDone
  /\ [](/\ loops.app.iterations <= Len(loops.text)
        /\ loops.ingest.iterations <= Len(loops.text))
  /\ []((ChunkersDone /\ loops.text = <<>>)
          => (loops.app.chunks = <<>> /\ loops.ingest.chunks = <<>>))

C22_Witness ==
  /\ ChunkersDone
  /\ loops.overlap > 0
  /\ loops.app.iterations >= 3
  /\ loops.ingest.iterations >= 3

\* C26: chunk_text(text, 500, 100) of ingest.py returns the chunks the
\* chunking loop of app.py makes of the same text with size 500 and overlap
\* 100.
C26_ChunkersAgree ==
  (ChunkersDone /\ loops.size = 500 /\ loops.overlap = 100)
    => loops.ingest.chunks = loops.app.chunks
\* C23: whatever the store answers, the upsert loop of an upload makes at
\* most 3 upsert calls, at most 3 create_collection calls (one per failed
\* upsert at most) and at most 2 backoff sleeps, of 2 s and 4 s and never 6 s;
\* no further call is pending once 3 upserts were made.
C23_UpsertLoopBounded ==
  \A c \in Callers :
    loc[c].handler = "upload" =>
      /\ Len(obs[c].upsert_log) <= 3
      /\ Len(obs[c].create_log) <= 3
      /\ Len(obs[c].create_log) <= Len(obs[c].upsert_log)
      /\ Len(obs[c].sleeps) <= 2
      /\ \A i \in 1..Len(obs[c].sleeps) : obs[c].sleeps[i] \in {2, 4}
      /\ pc[c] = "upsert" => Len(obs[c].upsert_log) < 3
      /\ pc[c] = "otf_create" => Len(obs[c].create_log) < Len(obs[c].upsert_log)

C23_Witness ==
  \E c \in Callers :
    /\ UploadDone(c)
    /\ Len(obs[c].upsert_log) = 3
    /\ Len(obs[c].create_log) = 3
    /\ obs[c].sleeps = <<2, 4>>
\* some upsert call of the run returned successfully
SomeUpsertSucceeded(c) ==
  \E i \in 1..Len(obs[c].upsert_log) : obs[c].upsert_log[i] = "ok"

\* C24: an upload reports success only if one of its upsert calls succeeded;
\* an upload whose upsert calls all failed raises the error of the last of
\* them, never the error of a create_collection call, whatever
\* ensure_collection_exists met before.
C24_SuccessNeedsUpsert ==
  \A c \in Callers :
    loc[c].handler = "upload" =>
      /\ ReportsSuccess(c) => SomeUpsertSucceeded(c)
      /\ (UploadDone(c) /\ obs[c].upsert_log # <<>> /\ ~SomeUpsertSucceeded(c))
           => /\ obs[c].raised = obs[c].upsert_log[Len(obs[c].upsert_log)]
              /\ LastMessage(c) = Msg("error", "Error processing document: "
                                     \o obs[c].upsert_log[Len(obs[c].upsert_log)])

C24_Witness ==
  \E c \in Callers :
    /\ UploadDone(c)
    /\ obs[c].check_log = <<E_Handshake>>
    /\ obs[c].upsert_log = <<E_NotFound, E_NotFound, E_NotFound>>
    /\ obs[c].create_log = <<E_Refused, E_Refused, E_Refused>>
    /\ obs[c].raised = E_NotFound
\* C25: the wrapper of retry_qdrant_operation(max_retries, delay) calls the
\* function at most max_retries times; it returns the result of the first
\* successful call; a non-retryable failure is raised right after the call,
\* with no sleep; the k-th failure, retryable and with k < max_retries, is
\* followed by a sleep of delay * k and another call; the max_retries-th
\* failure is raised without a sleep.
C25_WrapperRetries ==
  LET n == wrapper.max_retries
      calls == wrapper.calls
      k == Len(calls)
  IN wrapper.at # "idle" =>
       /\ k <= n
       /\ \A i \in 1..(k - 1) :
            /\ RetryableFailure(calls[i])
            /\ i < n
       /\ \A i \in 1..Len(wrapper.sleeps) :
            /\ wrapper.sleeps[i] = wrapper.delay * i
            /\ RetryableFailure(calls[i])
       /\ wrapper.at = "returned"
            => /\ k >= 1 /\ calls[k] \in FuncResults
               /\ wrapper.result = calls[k]
               /\ Len(wrapper.sleeps) = k - 1
       /\ (wrapper.at = "raised" /\ n > 0)
            => /\ k >= 1 /\ Failed(calls[k])
               /\ wrapper.result = calls[k]
               /\ Len(wrapper.sleeps) = k - 1
               /\ ~RetryableFailure(calls[k]) \/ k = n
       /\ (wrapper.at = "loop" /\ k >= 1)
            => /\ RetryableFailure(calls[k])
               /\ k < n
               /\ Len(wrapper.sleeps) = k

C25_Witness ==
  /\ wrapper.at = "returned"
  /\ wrapper.max_retries = 3
  /\ wrapper.delay = 3
  /\ wrapper.calls = <<E_Refused, E_ConnTimeout, "r2">>
  /\ wrapper.sleeps = <<3, 6>>
  /\ wrapper.result = "r2"
\* ensure_collection_exists of the caller's run has ended
Ensured(c) == Len(obs[c].ensure_ret) = 1

\* its create_collection call failed with a description that is neither an
\* already-exists nor a timeout/handshake/ssl one
CreateFailedOtherwise(c) ==
  /\ Len(obs[c].ensure_log) = 1
  /\ Failed(obs[c].ensure_log[1])
  /\ ~classify(obs[c].ensure_log[1]).ensure_already_exists
  /\ ~classify(obs[c].ensure_log[1]).is_timeout

\* its get_vector_size() failed with such a description
VectorSizeFailedOtherwise(c) ==
  /\ Len(obs[c].vector_log) = 1
  /\ Failed(obs[c].vector_log[1])
  /\ ~classify(obs[c].vector_log[1]).ensure_already_exists
  /\ ~classify(obs[c].vector_log[1]).is_timeout

\* what ensure_collection_exists returns: False only without a client, True
\* with one, whatever the check and the creation met, and no exception
EnsureReturns(c) ==
  /\ obs[c].ensure_raised = None
  /\ obs[c].ensure_ret = <<FALSE>> => session_state[c].qdrant = None
  /\ session_state[c].qdrant # None => obs[c].ensure_ret = <<TRUE>>

\* C27 as stated: ensure_collection_exists returns False only without a store
\* client and True with one, and shows an error only when its create call
\* failed with a description that is neither already-exists nor
\* timeout/handshake/ssl, and silent is False.
C27_ErrorOnlyOnCreateFailure ==
  \A c \in Callers :
    Ensured(c) =>
      /\ EnsureReturns(c)
      /\ EnsureErrorShown(c) => (~loc[c].silent /\ CreateFailedOtherwise(c))

\* C27 (amended): ensure_collection_exists returns False only without a store
\* client and True with one, and shows an error only when silent is False and
\* its creation step failed with a description that is neither already-exists
\* nor timeout/handshake/ssl: the create call, or get_vector_size before it.
C27_ErrorOnlyOnCreationFailure ==
  \A c \in Callers :
    Ensured(c) =>
      /\ EnsureReturns(c)
      /\ EnsureErrorShown(c)
           => /\ ~loc[c].silent
              /\ CreateFailedOtherwise(c) \/ VectorSizeFailedOtherwise(c)

\* the first search of the process: the model cannot be loaded, the error is
\* shown and the call returns True without a create call
C27_Witness ==
  \E c \in Callers :
    /\ Ensured(c)
    /\ obs[c].ensure_ret = <<TRUE>>
    /\ obs[c].vector_log = <<E_ModelLoad>>
    /\ obs[c].ensure_log = <<>>
    /\ EnsureErrorShown(c)
====
